---- MODULE Spec2Model ----
(***************************************************************************)
(* Run ledger of the speedrun worker (src/src/index.ts, the current        *)
(* version of the worker starting at line 406): the tables runs, players,  *)
(* time_logs, cheat_logs and solved_seeds, the request handlers that write *)
(* them, and the elapsed-time fold calculateStats.                         *)
(*                                                                         *)
(* Each handler is one action: the statements it awaits, in order, up to   *)
(* the first one that throws.  Which statement throws (if any) is an input *)
(* of the action, `fail`: 0 means none does, k > 0 means the k-th awaited  *)
(* database statement rejects, which takes the handler to its catch block. *)
(* A handler's response is its output: an operator (the handler's name     *)
(* with Response) of the tables before the request and of its inputs.      *)
(*                                                                         *)
(* Columns no statement of the ledger reads back (runs.type, goal,          *)
(* target_mob, hardcore, completion_details; cheat_logs.details and        *)
(* timestamp) are written once and never branch the control flow; they are *)
(* left out of the rows.                                                   *)
(*                                                                         *)
(* Reset/reseed orchestrator (the background tasks of /api/run/reset and   *)
(* /api/server/restart): each task is a process whose position pc is the   *)
(* await it stands at; one action per awaited call, which either returns   *)
(* or throws (ExarotonClient.request throws on a non-OK response).  The    *)
(* hosting service is the variable server, the status the service reports. *)
(*                                                                         *)
(* update-state and finish are also given await by await (variable         *)
(* inflight: the locals of the invocations between two awaits), for what   *)
(* requests in progress together can see of each other.  The middleware    *)
(* on /api/* is the operator AuthResponse; Api puts a handler behind it.   *)
(***************************************************************************)
EXTENDS Integers, Sequences, FiniteSets, TLC

(* ---------------------------------------------------------------- bounds *)

\* Date.now() ranges over 0..MaxTime.
MaxTime == 2

\* time_logs holds at most MaxLogs rows (the table itself is unbounded).
MaxLogs == 3

\* The same two bounds of SpecStartPause, whose logs hold START and PAUSE only.
MaxPairTime == 4

MaxPairLogs == 4

\* In SpecOrchTwo a task goes to sleep only while the two tasks have made fewer
\* than MaxWait polls inside their loops between them (the loop allows each 100).
MaxWait == 1

\* The clock of SpecSteps ranges over 0..MaxStepTime.
MaxStepTime == 1
MaxPropLines == 2

RunIds == {"r1", "r2"}

Seeds == {"s1", "s2"}

\* SQL NULL in an INTEGER column (ended_at, duration).
NULL == -1

\* The key of a run id that has no row in runs.
NoRun == [seed |-> "", status |-> "NONE", created_at |-> NULL, ended_at |-> NULL,
          duration |-> NULL, set_seed |-> 0]

\* The players arrays a client sends with init; NoPlayers is the missing field.
NoPlayers == <<[name |-> "", role |-> "MISSING"]>>

PlayerLists == { <<>>,
                 <<[name |-> "p1", role |-> "RUNNER"], [name |-> "p2", role |-> "SPECTATOR"]>> }

\* The action vocabulary update-state accepts.
StateActions == {"START", "RESUME", "PAUSE", "ABORT", "FAIL"}

\* What a client may send as action: the vocabulary, END, an unknown word, nothing.
ActionInputs == StateActions \cup {"END", "STOP", ""}

\* The background tasks a model run may launch (every request launches one).
Orchs == {"o1", "o2"}

\* Status codes of the hosting service.
OFFLINE == 0

ONLINE == 1

STARTING == 2

STOPPING == 3

RESTARTING == 4

\* The wait loop gives up when attempts reaches this.
MaxAttempts == 100

\* The directories a reset or reseed deletes, in the order of the calls.
WorldDirs == <<"world", "world_nether", "world_the_end">>

\* A task that no request has launched: status is the local `status` (unset),
\* attempts the local `attempts`, dir the index of the next directory to delete,
\* resp the HTTP status its request was answered with, seed the seed of the
\* request body, propsContent the text getFileContent returned.
Idle == [route |-> "", pc |-> "idle", status |-> NULL, attempts |-> 0, dir |-> 1,
         resp |-> NULL, seed |-> "", propsContent |-> <<>>]

\* Where a background task may end: the request refused (no configuration), the
\* last call returned, the wait loop gave up, server.properties could not be
\* updated, the outer catch.
Terminal == {"rejected", "done", "aborted", "props_failed", "failed"}

\* The ledger requests a model run may have in progress at once.
Reqs == {"q1", "q2"}

\* A request slot with no request in progress.  Of a request in progress: its
\* route, the statement it awaits next (pc), its body's run_id and action, its
\* local `now`, the seed its SELECT returned and the duration its calculateStats
\* returned.
IdleReq == [route |-> "", pc |-> 0, run_id |-> "", action |-> "", now |-> 0,
            seed |-> "", duration_ms |-> NULL]

(* ----------------------------------------------------- server.properties *)
(* Texts are sequences of characters.                                        *)

\* 'level-seed='
Key == <<"l", "e", "v", "e", "l", "-", "s", "e", "e", "d", "=">>

\* The characters of a seed, as the template literal `${seed}` writes them.
Chars(seed) ==
    CASE seed = "s1" -> <<"s", "1">>
      [] seed = "s2" -> <<"s", "2">>
      [] seed = "7\nx" -> <<"7", "\n", "x">>
      [] OTHER -> <<>>

\* line.startsWith(prefix)
startsWith(line, prefix) ==
    Len(line) >= Len(prefix) /\ SubSeq(line, 1, Len(prefix)) = prefix

\* text.split('\n'): the pieces between the line breaks, at least one.
RECURSIVE split(_)
split(text) ==
    IF \A i \in 1..Len(text) : text[i] # "\n" THEN <<text>>
    ELSE LET i == CHOOSE k \in 1..Len(text) :
                     text[k] = "\n" /\ \A j \in 1..(k - 1) : text[j] # "\n"
         IN  <<SubSeq(text, 1, i - 1)>> \o split(SubSeq(text, i + 1, Len(text)))

\* lines.join('\n')
RECURSIVE join(_)
join(lines) ==
    IF lines = <<>> THEN <<>>
    ELSE IF Len(lines) = 1 THEN lines[1]
    ELSE lines[1] \o <<"\n">> \o join(Tail(lines))

\* newLines replacing every line that contains the key, wherever it stands.
newLinesContaining(lines, seed) ==
    LET has(line) == \E k \in 0..Len(line) : startsWith(SubSeq(line, k + 1, Len(line)), Key)
        mapped == [i \in 1..Len(lines) |->
                     IF has(lines[i]) THEN Key \o Chars(seed) ELSE lines[i]]
    IN  IF ~\E i \in 1..Len(lines) : has(lines[i])
        THEN Append(mapped, Key \o Chars(seed))
        ELSE mapped

\* newLines: lines.map(...) and, where no line started with the key, the push.
newLines(lines, seed) ==
    LET mapped == [i \in 1..Len(lines) |->
                     IF startsWith(lines[i], Key) THEN Key \o Chars(seed) ELSE lines[i]]
    IN  IF ~\E i \in 1..Len(lines) : startsWith(lines[i], Key)
        THEN Append(mapped, Key \o Chars(seed))
        ELSE mapped

\* newContent: the text uploaded for the text fetched.
newContent(propsContent, seed) == join(newLines(split(propsContent), seed))

\* The server.properties of a server nobody has reseeded: 'level-seed=0'.
DefaultProps == Key \o <<"0">>

(* ----------------------------------------------------------------- state *)

VARIABLES
    now,           \* Date.now(): the wall clock, in milliseconds
    runs,          \* table runs: run id -> row (NoRun when no row has that id)
    players,       \* table players: rows in rowid order
    time_logs,     \* table time_logs: run id -> its rows in rowid order
    cheat_logs,    \* table cheat_logs: rows in rowid order
    solved_seeds,  \* table solved_seeds: seed -> solved_at (NULL when no row)
    foreign_keys,  \* whether the store enforces REFERENCES runs(id); fixed at start
    inflight,      \* ledger requests between two of their awaits: slot -> locals
    orch,          \* the background tasks: task id -> its position and locals
    calls,         \* what the tasks have awaited so far, in order
    server,        \* the status code the hosting service reports for the server
    files          \* the text of server.properties on the server, as characters

\* The remote-control side of the state.
remote == <<orch, calls, server, files>>

vars == <<now, runs, players, time_logs, cheat_logs, solved_seeds, foreign_keys,
          inflight, orch, calls, server, files>>

tables == <<runs, players, time_logs, cheat_logs, solved_seeds>>

(* ------------------------------------------------------- calculateStats *)

\* ORDER BY timestamp ASC: rows by ascending timestamp, rows of equal timestamp
\* in rowid order.  InsertByTimestamp puts one row behind every row whose
\* timestamp is not greater.
RECURSIVE InsertByTimestamp(_, _)
InsertByTimestamp(sorted, row) ==
    IF sorted = <<>> THEN <<row>>
    ELSE IF sorted[Len(sorted)].timestamp <= row.timestamp THEN Append(sorted, row)
    ELSE Append(InsertByTimestamp(SubSeq(sorted, 1, Len(sorted) - 1), row), sorted[Len(sorted)])

RECURSIVE OrderByTimestamp(_)
OrderByTimestamp(rows) ==
    IF rows = <<>> THEN <<>>
    ELSE InsertByTimestamp(OrderByTimestamp(SubSeq(rows, 1, Len(rows) - 1)), rows[Len(rows)])

\* The three locals of the loop before its first iteration.
FoldInit == [totalTimeMs |-> 0, lastStartTime |-> 0, isRunning |-> FALSE]

\* FoldStep with `totalTimeMs =` for `totalTimeMs +=`: a pause forgets the
\* intervals closed before it.
FoldStepAssigns(st, log) ==
    IF log.action = "START" \/ log.action = "RESUME"
    THEN IF ~st.isRunning
         THEN [st EXCEPT !.lastStartTime = log.timestamp, !.isRunning = TRUE]
         ELSE st
    ELSE IF log.action = "PAUSE" \/ log.action = "END"
    THEN IF st.isRunning
         THEN [st EXCEPT !.totalTimeMs = log.timestamp - st.lastStartTime,
                         !.isRunning = FALSE]
         ELSE st
    ELSE st

\* FoldStep without `if (!isRunning)`: a clock-on edge met with the clock on
\* moves lastStartTime.
FoldStepRestarts(st, log) ==
    IF log.action = "START" \/ log.action = "RESUME"
    THEN [st EXCEPT !.lastStartTime = log.timestamp, !.isRunning = TRUE]
    ELSE IF log.action = "PAUSE" \/ log.action = "END"
    THEN IF st.isRunning
         THEN [st EXCEPT !.totalTimeMs = st.totalTimeMs + (log.timestamp - st.lastStartTime),
                         !.isRunning = FALSE]
         ELSE st
    ELSE st

\* FoldStep without `if (isRunning)`: a clock-off edge met with the clock off
\* adds the time since lastStartTime again.
FoldStepCountsEveryOff(st, log) ==
    IF log.action = "START" \/ log.action = "RESUME"
    THEN IF ~st.isRunning
         THEN [st EXCEPT !.lastStartTime = log.timestamp, !.isRunning = TRUE]
         ELSE st
    ELSE IF log.action = "PAUSE" \/ log.action = "END"
    THEN [st EXCEPT !.totalTimeMs = st.totalTimeMs + (log.timestamp - st.lastStartTime),
                    !.isRunning = FALSE]
    ELSE st

\* FoldStep whose clock-on edge forgets the intervals closed before it.
FoldStepOnResets(st, log) ==
    IF log.action = "START" \/ log.action = "RESUME"
    THEN IF ~st.isRunning
         THEN [totalTimeMs |-> 0, lastStartTime |-> log.timestamp, isRunning |-> TRUE]
         ELSE st
    ELSE IF log.action = "PAUSE" \/ log.action = "END"
    THEN IF st.isRunning
         THEN [st EXCEPT !.totalTimeMs = st.totalTimeMs + (log.timestamp - st.lastStartTime),
                         !.isRunning = FALSE]
         ELSE st
    ELSE st

\* FoldStep with ABORT and FAIL among the clock-off edges.
FoldStepAbortStops(st, log) ==
    IF log.action = "START" \/ log.action = "RESUME"
    THEN IF ~st.isRunning
         THEN [st EXCEPT !.lastStartTime = log.timestamp, !.isRunning = TRUE]
         ELSE st
    ELSE IF log.action \in {"PAUSE", "END", "ABORT", "FAIL"}
    THEN IF st.isRunning
         THEN [st EXCEPT !.totalTimeMs = st.totalTimeMs + (log.timestamp - st.lastStartTime),
                         !.isRunning = FALSE]
         ELSE st
    ELSE st

\* One iteration of the loop over the time logs.
FoldStep(st, log) ==
    IF log.action = "START" \/ log.action = "RESUME"
    THEN IF ~st.isRunning
         THEN [st EXCEPT !.lastStartTime = log.timestamp, !.isRunning = TRUE]
         ELSE st
    ELSE IF log.action = "PAUSE" \/ log.action = "END"
    THEN IF st.isRunning
         THEN [st EXCEPT !.totalTimeMs = st.totalTimeMs + (log.timestamp - st.lastStartTime),
                         !.isRunning = FALSE]
         ELSE st
    ELSE st

\* The loop: the locals after the rows of logs, in the order given.
RECURSIVE FoldLogs(_)
FoldLogs(logs) ==
    IF logs = <<>> THEN FoldInit
    ELSE FoldStep(FoldLogs(SubSeq(logs, 1, Len(logs) - 1)), logs[Len(logs)])

\* ElapsedMs without the block after the loop: a clock left on adds nothing.
ElapsedMsClosedOnly(rows, t) == FoldLogs(OrderByTimestamp(rows)).totalTimeMs

\* totalTimeMs as calculateStats returns it at Date.now() = t for rows in rowid order.
ElapsedMs(rows, t) ==
    LET st == FoldLogs(OrderByTimestamp(rows))
    IN  IF st.isRunning THEN st.totalTimeMs + (t - st.lastStartTime) ELSE st.totalTimeMs

\* formatDuration: `${hours}h ${minutes}m ${seconds} s`, as its pieces.
formatDuration(ms) ==
    <<(ms \div (1000 * 60 * 60)), "h ", ((ms \div (1000 * 60)) % 60), "m ",
      ((ms \div 1000) % 60), " s">>

\* SELECT minecraft_name FROM players WHERE run_id = ? AND role = 'RUNNER'.
RECURSIVE RunnerNames(_, _)
RunnerNames(rows, r) ==
    IF rows = <<>> THEN <<>>
    ELSE LET rest == RunnerNames(Tail(rows), r)
         IN  IF Head(rows).run_id = r /\ Head(rows).role = "RUNNER"
             THEN <<Head(rows).minecraft_name>> \o rest
             ELSE rest

\* CheatCount as COUNT(DISTINCT player_name): one incident per player reported.
CheatCountPlayers(rows, r) ==
    Cardinality({rows[i].player_name : i \in {k \in 1..Len(rows) : rows[k].run_id = r}})

\* SELECT COUNT(*) FROM cheat_logs WHERE run_id = ?.
CheatCount(rows, r) == Cardinality({i \in 1..Len(rows) : rows[i].run_id = r})

\* What calculateStats returns for run r over the tables given, read at t.
\* Only called when the run row exists (it throws 'Run not found' otherwise).
calculateStats(rs, ps, tl, cl, r, t) ==
    [run_id |-> r,
     seed |-> rs[r].seed,
     duration_ms |-> ElapsedMs(tl[r], t),
     duration_formatted |-> formatDuration(ElapsedMs(tl[r], t)),
     players |-> RunnerNames(ps, r),
     cheat_incidents |-> CheatCount(cl, r),
     solved_at |-> rs[r].ended_at]

\* The stats of a response that carries none.
NoStats == [run_id |-> "", seed |-> "", duration_ms |-> NULL,
            duration_formatted |-> <<>>, players |-> <<>>, cheat_incidents |-> 0,
            solved_at |-> NULL]

\* c.json(body, code): the HTTP status and, for finish and stats, the stats sent.
Response(code, stats) == [code |-> code, stats |-> stats]

\* Whether runs has a row with id r.
RunExists(rs, r) == r \in RunIds /\ rs[r] # NoRun

\* Orphan over tables declared without FOREIGN KEY: no INSERT rejects.
OrphanUndeclared(rs, r) == FALSE

\* Whether an INSERT of a row referencing run r rejects: FOREIGN KEY (run_id)
\* REFERENCES runs(id), when the store enforces it.
Orphan(rs, r) == foreign_keys /\ ~RunExists(rs, r)

(* ------------------------------------------------------------------ Init *)

Init ==
    /\ now = 0
    /\ runs = [r \in RunIds |-> NoRun]
    /\ players = <<>>
    /\ time_logs = [r \in RunIds |-> <<>>]
    /\ cheat_logs = <<>>
    /\ solved_seeds = [s \in Seeds |-> NULL]
    /\ foreign_keys \in BOOLEAN
    /\ inflight = [q \in Reqs |-> IdleReq]
    /\ orch = [o \in Orchs |-> Idle]
    /\ calls = <<>>
    /\ server = ONLINE
    /\ files = DefaultProps

(* -------------------------------------------------------------- handlers *)

\* InitRunThrown over a runs table whose id is no key: the INSERT of an id that
\* has a row does not throw.
InitRunThrownNoKey(run_id, type, seed, ps, fail) ==
    IF run_id = "" \/ type = "" \/ seed = "" \/ ps = NoPlayers THEN -1
    ELSE IF fail = 1 THEN 1
    ELSE IF fail = 2 THEN 2
    ELSE 0

\* InitRunThrown whose validation forgets the type.
InitRunThrownUntyped(run_id, type, seed, ps, fail) ==
    IF run_id = "" \/ seed = "" \/ ps = NoPlayers THEN -1
    ELSE IF fail = 1 \/ RunExists(runs, run_id) THEN 1
    ELSE IF fail = 2 THEN 2
    ELSE 0

\* POST /api/run/init: the statement that throws (0: none; -1: rejected by the
\* check of the required fields).  Statements: 1 INSERT INTO runs (id is the
\* PRIMARY KEY), 2 the players batch.
InitRunThrown(run_id, type, seed, ps, fail) ==
    IF run_id = "" \/ type = "" \/ seed = "" \/ ps = NoPlayers THEN -1
    ELSE IF fail = 1 \/ RunExists(runs, run_id) THEN 1
    ELSE IF fail = 2 THEN 2
    ELSE 0

InitRunResponse(run_id, type, seed, ps, fail) ==
    LET thrown == InitRunThrown(run_id, type, seed, ps, fail)
    IN  Response(IF thrown = -1 THEN 400 ELSE IF thrown = 0 THEN 200 ELSE 500, NoStats)

\* NewRun with duration 0 for NULL (a column declared DEFAULT 0).
NewRunZeroDuration(seed) ==
    [seed |-> seed, status |-> "CREATED", created_at |-> now,
     ended_at |-> NULL, duration |-> 0, set_seed |-> 0]

\* The row statement 1 inserts; the columns it does not name take their defaults.
NewRun(seed) ==
    [seed |-> seed, status |-> "CREATED", created_at |-> now,
     ended_at |-> NULL, duration |-> NULL, set_seed |-> 0]

\* The row of a request whose body carries set_seed: `set_seed ? 1 : 0`.
NewRunSetSeed(seed, set_seed) ==
    [NewRun(seed) EXCEPT !.set_seed = IF set_seed THEN 1 ELSE 0]

\* The tables runs and players after the request.
InitRunRuns(run_id, type, seed, ps, fail) ==
    IF InitRunThrown(run_id, type, seed, ps, fail) \in {-1, 1} THEN runs
    ELSE [runs EXCEPT ![run_id] = NewRun(seed)]

InitRunPlayers(run_id, type, seed, ps, fail) ==
    IF InitRunThrown(run_id, type, seed, ps, fail) # 0 THEN players
    ELSE players \o [i \in 1..Len(ps) |->
                       [run_id |-> run_id, minecraft_name |-> ps[i].name,
                        role |-> ps[i].role]]

\* POST /api/run/init with the optional set_seed in the body.
InitRunSetSeed(run_id, type, seed, ps, set_seed, fail) ==
    /\ runs' = IF InitRunThrown(run_id, type, seed, ps, fail) \in {-1, 1} THEN runs
               ELSE [runs EXCEPT ![run_id] = NewRunSetSeed(seed, set_seed)]
    /\ players' = InitRunPlayers(run_id, type, seed, ps, fail)
    /\ UNCHANGED <<now, time_logs, cheat_logs, solved_seeds, foreign_keys, inflight, remote>>

\* POST /api/run/init, set_seed left out of the body.
InitRun(run_id, type, seed, ps, fail) ==
    /\ runs' = InitRunRuns(run_id, type, seed, ps, fail)
    /\ players' = InitRunPlayers(run_id, type, seed, ps, fail)
    /\ UNCHANGED <<now, time_logs, cheat_logs, solved_seeds, foreign_keys, inflight, remote>>

\* NewStatus with END falling into the PAUSE case.
NewStatusEndPauses(action) ==
    CASE action = "START" \/ action = "RESUME" -> "RUNNING"
      [] action = "PAUSE" \/ action = "END" -> "PAUSED"
      [] action = "ABORT" -> "ABORTED"
      [] action = "FAIL" -> "FAILED"
      [] OTHER -> ""

\* The switch of update-state: the status an action maps to ("" for the default
\* case, which returns 400).
NewStatus(action) ==
    CASE action = "START" \/ action = "RESUME" -> "RUNNING"
      [] action = "PAUSE" -> "PAUSED"
      [] action = "ABORT" -> "ABORTED"
      [] action = "FAIL" -> "FAILED"
      [] OTHER -> ""

\* POST /api/run/update-state: the statement that throws (0: none; -1: rejected
\* before the try block's statements).  Statements: 1 UPDATE runs SET status,
\* 2 INSERT INTO time_logs.
UpdateStateThrown(run_id, action, fail) ==
    IF run_id = "" \/ action = "" THEN -1
    ELSE IF NewStatus(action) = "" THEN -1
    ELSE IF fail = 1 THEN 1
    ELSE IF fail = 2 \/ Orphan(runs, run_id) THEN 2
    ELSE 0

UpdateStateResponse(run_id, action, fail) ==
    LET thrown == UpdateStateThrown(run_id, action, fail)
    IN  Response(IF thrown = -1 THEN 400 ELSE IF thrown = 0 THEN 200 ELSE 500, NoStats)

\* The tables runs and time_logs after the request.
UpdateStateRuns(run_id, action, fail) ==
    IF UpdateStateThrown(run_id, action, fail) \in {-1, 1} \/ ~RunExists(runs, run_id)
    THEN runs
    ELSE [runs EXCEPT ![run_id].status = NewStatus(action)]

\* UpdateStateLogs binding newStatus for action in the INSERT.
UpdateStateLogsStatus(run_id, action, fail) ==
    IF UpdateStateThrown(run_id, action, fail) # 0 THEN time_logs
    ELSE [time_logs EXCEPT ![run_id] =
            Append(@, [action |-> NewStatus(action), timestamp |-> now])]

UpdateStateLogs(run_id, action, fail) ==
    IF UpdateStateThrown(run_id, action, fail) # 0 THEN time_logs
    ELSE [time_logs EXCEPT ![run_id] = Append(@, [action |-> action, timestamp |-> now])]

UpdateState(run_id, action, fail) ==
    /\ runs' = UpdateStateRuns(run_id, action, fail)
    /\ time_logs' = UpdateStateLogs(run_id, action, fail)
    /\ UNCHANGED <<now, players, cheat_logs, solved_seeds, foreign_keys, inflight, remote>>

\* POST /api/run/cheat.  One statement: INSERT INTO cheat_logs.
CheatThrown(run_id, fail) == IF fail = 1 \/ Orphan(runs, run_id) THEN 1 ELSE 0

CheatResponse(run_id, fail) ==
    Response(IF CheatThrown(run_id, fail) = 0 THEN 200 ELSE 500, NoStats)

Cheat(run_id, player_name, fail) ==
    /\ cheat_logs' = IF CheatThrown(run_id, fail) # 0 THEN cheat_logs
                     ELSE Append(cheat_logs, [run_id |-> run_id, player_name |-> player_name])
    /\ UNCHANGED <<now, runs, players, time_logs, solved_seeds, foreign_keys, inflight, remote>>

\* FinishThrown with a plain INSERT into solved_seeds: a seed that has a row
\* makes the statement throw on the primary key.
FinishThrownPlainInsert(run_id, fail) ==
    IF fail = 1 THEN 1
    ELSE IF fail = 2 \/ Orphan(runs, run_id) THEN 2
    ELSE IF fail = 3 THEN 3
    ELSE IF RunExists(runs, run_id)
            /\ (fail = 4 \/ solved_seeds[runs[run_id].seed] # NULL) THEN 4
    ELSE IF fail = 5 \/ ~RunExists(runs, run_id) THEN 5
    ELSE IF fail = 6 THEN 6
    ELSE 0

\* POST /api/run/finish: the statement that throws (0: none).  Statements:
\* 1 UPDATE runs SET status, ended_at; 2 INSERT INTO time_logs END; 3 SELECT
\* seed; 4 INSERT OR IGNORE INTO solved_seeds (only when the run row exists);
\* 5 calculateStats (throws 'Run not found' without the run row); 6 UPDATE runs
\* SET duration.
\* FinishThrown of a finish that refuses a run that is not under way.
FinishThrownUnlessUnderWay(run_id, fail) ==
    IF fail = 1 \/ runs[run_id].status \notin {"RUNNING", "PAUSED"} THEN 1
    ELSE IF fail = 2 \/ Orphan(runs, run_id) THEN 2
    ELSE IF fail = 3 THEN 3
    ELSE IF fail = 4 /\ RunExists(runs, run_id) THEN 4
    ELSE IF fail = 5 \/ ~RunExists(runs, run_id) THEN 5
    ELSE IF fail = 6 THEN 6
    ELSE 0

FinishThrown(run_id, fail) ==
    IF fail = 1 THEN 1
    ELSE IF fail = 2 \/ Orphan(runs, run_id) THEN 2
    ELSE IF fail = 3 THEN 3
    ELSE IF fail = 4 /\ RunExists(runs, run_id) THEN 4
    ELSE IF fail = 5 \/ ~RunExists(runs, run_id) THEN 5
    ELSE IF fail = 6 THEN 6
    ELSE 0

\* The tables after statement 1 and after statement 2 of finish.
FinishRuns1(run_id) ==
    IF RunExists(runs, run_id)
    THEN [runs EXCEPT ![run_id].status = "FINISHED", ![run_id].ended_at = now]
    ELSE runs

FinishLogs2(run_id) ==
    [time_logs EXCEPT ![run_id] = Append(@, [action |-> "END", timestamp |-> now])]

\* Statement 4 as INSERT OR REPLACE: a later finish overwrites solved_at.
InsertOrReplaceSolved(solved, seed, t) == [solved EXCEPT ![seed] = t]

\* Statement 4: INSERT OR IGNORE keeps the row a seed already has.
InsertOrIgnoreSolved(solved, seed, t) ==
    IF solved[seed] = NULL THEN [solved EXCEPT ![seed] = t] ELSE solved

\* const stats = await calculateStats(...), over the tables as statements 1 and 2
\* left them.
FinishStats(run_id) ==
    calculateStats(FinishRuns1(run_id), players, FinishLogs2(run_id), cheat_logs, run_id, now)

FinishResponse(run_id, fail) ==
    IF FinishThrown(run_id, fail) = 0
    THEN Response(200, FinishStats(run_id))
    ELSE Response(500, NoStats)

\* FinishRuns without statement 6 (the handler before it persisted the duration).
FinishRunsNoDuration(run_id, fail) ==
    IF FinishThrown(run_id, fail) = 1 THEN runs ELSE FinishRuns1(run_id)

\* FinishRuns inside a transaction: a throw rolls statement 1 back.
FinishRunsRollback(run_id, fail) ==
    IF FinishThrown(run_id, fail) # 0 THEN runs
    ELSE [FinishRuns1(run_id) EXCEPT ![run_id].duration = FinishStats(run_id).duration_ms]

\* The table runs after the request.
FinishRuns(run_id, fail) ==
    LET thrown == FinishThrown(run_id, fail)
        runs1 == FinishRuns1(run_id)
    IN  IF thrown = 1 THEN runs
        ELSE IF thrown = 0
        THEN [runs1 EXCEPT ![run_id].duration = FinishStats(run_id).duration_ms]
        ELSE runs1

Finish(run_id, fail) ==
    LET thrown == FinishThrown(run_id, fail)
        runs1 == FinishRuns1(run_id)
    IN  /\ runs' = FinishRuns(run_id, fail)
        /\ time_logs' = IF thrown \in {1, 2} THEN time_logs ELSE FinishLogs2(run_id)
        /\ solved_seeds' = IF thrown \in {1, 2, 3, 4} \/ ~RunExists(runs, run_id)
                           THEN solved_seeds
                           ELSE InsertOrIgnoreSolved(solved_seeds, runs1[run_id].seed, now)
        /\ UNCHANGED <<now, players, cheat_logs, foreign_keys, inflight, remote>>

\* StatsResponse over a calculateStats without `if (!run) throw`.
StatsResponseNoThrow(run_id, fail) ==
    IF fail = 0
    THEN Response(200, calculateStats(runs, players, time_logs, cheat_logs, run_id, now))
    ELSE Response(500, NoStats)

\* GET /api/run/:run_id/stats.  calculateStats only reads; any failure is a 500.
StatsResponse(run_id, fail) ==
    IF fail = 0 /\ RunExists(runs, run_id)
    THEN Response(200, calculateStats(runs, players, time_logs, cheat_logs, run_id, now))
    ELSE Response(500, NoStats)

Stats(run_id, fail) == UNCHANGED vars

\* POST /api/admin/init-db: every table dropped and created again, in one batch.
InitDbResponse(fail) == Response(IF fail = 0 THEN 200 ELSE 500, NoStats)

InitDb(fail) ==
    /\ IF fail # 0
       THEN UNCHANGED tables
       ELSE /\ runs' = [r \in RunIds |-> NoRun]
            /\ players' = <<>>
            /\ time_logs' = [r \in RunIds |-> <<>>]
            /\ cheat_logs' = <<>>
            /\ solved_seeds' = [s \in Seeds |-> NULL]
    /\ UNCHANGED <<now, foreign_keys, inflight, remote>>

(* ------------------------------------------- handlers, await by await    *)
(* update-state and finish as the runtime executes them: one step per        *)
(* awaited statement, each committed on its own, other requests free to run  *)
(* in between.  `ok` is whether the statement returns; a throw is caught,    *)
(* answered 500, and ends the request.                                       *)

\* update-state up to its first await: the body validated, `now` read.
BeginUpdateState(q, run_id, action) ==
    /\ inflight[q] = IdleReq
    /\ inflight' = IF run_id = "" \/ action = "" \/ NewStatus(action) = ""
                   THEN inflight
                   ELSE [inflight EXCEPT ![q] =
                           [IdleReq EXCEPT !.route = "update-state", !.pc = 1,
                                           !.run_id = run_id, !.action = action,
                                           !.now = now]]
    /\ UNCHANGED <<now, tables, foreign_keys, remote>>

\* UPDATE runs SET status = ? WHERE id = ?
UpdateStateStmt1(q, ok) ==
    LET req == inflight[q] IN
    /\ req.route = "update-state" /\ req.pc = 1
    /\ runs' = IF ok /\ RunExists(runs, req.run_id)
               THEN [runs EXCEPT ![req.run_id].status = NewStatus(req.action)]
               ELSE runs
    /\ inflight' = [inflight EXCEPT ![q] = IF ok THEN [req EXCEPT !.pc = 2] ELSE IdleReq]
    /\ UNCHANGED <<now, players, time_logs, cheat_logs, solved_seeds, foreign_keys, remote>>

\* INSERT INTO time_logs (run_id, action, timestamp), then the response.
UpdateStateStmt2(q, ok) ==
    LET req == inflight[q] IN
    /\ req.route = "update-state" /\ req.pc = 2
    /\ time_logs' = IF ok /\ ~Orphan(runs, req.run_id)
                    THEN [time_logs EXCEPT ![req.run_id] =
                            Append(@, [action |-> req.action, timestamp |-> req.now])]
                    ELSE time_logs
    /\ inflight' = [inflight EXCEPT ![q] = IdleReq]
    /\ UNCHANGED <<now, runs, players, cheat_logs, solved_seeds, foreign_keys, remote>>

\* finish up to its first await: `now` read.
BeginFinish(q, run_id) ==
    /\ inflight[q] = IdleReq
    /\ inflight' = [inflight EXCEPT ![q] =
                      [IdleReq EXCEPT !.route = "finish", !.pc = 1, !.run_id = run_id,
                                      !.now = now]]
    /\ UNCHANGED <<now, tables, foreign_keys, remote>>

\* 1. UPDATE runs SET status = 'FINISHED', ended_at = now
FinishStmt1(q, ok) ==
    LET req == inflight[q] IN
    /\ req.route = "finish" /\ req.pc = 1
    /\ runs' = IF ok /\ RunExists(runs, req.run_id)
               THEN [runs EXCEPT ![req.run_id].status = "FINISHED",
                                 ![req.run_id].ended_at = req.now]
               ELSE runs
    /\ inflight' = [inflight EXCEPT ![q] = IF ok THEN [req EXCEPT !.pc = 2] ELSE IdleReq]
    /\ UNCHANGED <<now, players, time_logs, cheat_logs, solved_seeds, foreign_keys, remote>>

\* 2. INSERT INTO time_logs (run_id, 'END', now)
FinishStmt2(q, ok) ==
    LET req == inflight[q]
        returns == ok /\ ~Orphan(runs, req.run_id)
    IN  /\ req.route = "finish" /\ req.pc = 2
        /\ time_logs' = IF returns
                        THEN [time_logs EXCEPT ![req.run_id] =
                                Append(@, [action |-> "END", timestamp |-> req.now])]
                        ELSE time_logs
        /\ inflight' = [inflight EXCEPT ![q] =
                          IF returns THEN [req EXCEPT !.pc = 3] ELSE IdleReq]
        /\ UNCHANGED <<now, runs, players, cheat_logs, solved_seeds, foreign_keys, remote>>

\* 3. SELECT seed FROM runs; `if (run)` decides whether statement 4 is issued.
FinishStmt3(q, ok) ==
    LET req == inflight[q] IN
    /\ req.route = "finish" /\ req.pc = 3
    /\ inflight' = [inflight EXCEPT ![q] =
                      IF ~ok THEN IdleReq
                      ELSE IF RunExists(runs, req.run_id)
                      THEN [req EXCEPT !.pc = 4, !.seed = runs[req.run_id].seed]
                      ELSE [req EXCEPT !.pc = 5]]
    /\ UNCHANGED <<now, tables, foreign_keys, remote>>

\* INSERT OR IGNORE INTO solved_seeds (seed, now)
FinishStmt4(q, ok) ==
    LET req == inflight[q] IN
    /\ req.route = "finish" /\ req.pc = 4
    /\ solved_seeds' = IF ok THEN InsertOrIgnoreSolved(solved_seeds, req.seed, req.now)
                       ELSE solved_seeds
    /\ inflight' = [inflight EXCEPT ![q] = IF ok THEN [req EXCEPT !.pc = 5] ELSE IdleReq]
    /\ UNCHANGED <<now, runs, players, time_logs, cheat_logs, foreign_keys, remote>>

\* 4. calculateStats: the log as it is when read, Date.now() as it is then.  Its
\* four SELECTs are taken as one read.
FinishStmt5(q, ok) ==
    LET req == inflight[q]
        returns == ok /\ RunExists(runs, req.run_id)
    IN  /\ req.route = "finish" /\ req.pc = 5
        /\ inflight' = [inflight EXCEPT ![q] =
                          IF returns
                          THEN [req EXCEPT !.pc = 6,
                                           !.duration_ms =
                                              ElapsedMs(time_logs[req.run_id], now)]
                          ELSE IdleReq]
        /\ UNCHANGED <<now, tables, foreign_keys, remote>>

\* 5. UPDATE runs SET duration = stats.duration_ms, then the response.
FinishStmt6(q, ok) ==
    LET req == inflight[q] IN
    /\ req.route = "finish" /\ req.pc = 6
    /\ runs' = IF ok /\ RunExists(runs, req.run_id)
               THEN [runs EXCEPT ![req.run_id].duration = req.duration_ms]
               ELSE runs
    /\ inflight' = [inflight EXCEPT ![q] = IdleReq]
    /\ UNCHANGED <<now, players, time_logs, cheat_logs, solved_seeds, foreign_keys, remote>>

\* leaderboardRows without the set_seed condition: one board of all runs.
leaderboardRowsAnySeed(rs, ps, set_seed) ==
    {[id |-> ps[i].run_id, duration |-> rs[ps[i].run_id].duration,
      ended_at |-> rs[ps[i].run_id].ended_at, minecraft_name |-> ps[i].minecraft_name] :
        i \in {k \in 1..Len(ps) : /\ RunExists(rs, ps[k].run_id)
                                  /\ rs[ps[k].run_id].status = "FINISHED"
                                  /\ rs[ps[k].run_id].duration # NULL
                                  /\ ps[k].role = "RUNNER"}}

\* getStats, 3. and 3.1: the rows of runs JOIN players WHERE status = 'FINISHED'
\* AND duration IS NOT NULL AND role = 'RUNNER' AND set_seed = ?.  (ORDER BY
\* duration and LIMIT 10 choose among them; the tables of the model hold
\* fewer than ten such rows.)
leaderboardRows(rs, ps, set_seed) ==
    {[id |-> ps[i].run_id, duration |-> rs[ps[i].run_id].duration,
      ended_at |-> rs[ps[i].run_id].ended_at, minecraft_name |-> ps[i].minecraft_name] :
        i \in {k \in 1..Len(ps) : /\ RunExists(rs, ps[k].run_id)
                                  /\ rs[ps[k].run_id].status = "FINISHED"
                                  /\ rs[ps[k].run_id].duration # NULL
                                  /\ ps[k].role = "RUNNER"
                                  /\ rs[ps[k].run_id].set_seed = set_seed}}

\* leaderboard (set_seed = 0) and set_seed_leaderboard (set_seed = 1).
leaderboard(rs, ps) == leaderboardRows(rs, ps, 0)

setSeedLeaderboard(rs, ps) == leaderboardRows(rs, ps, 1)

\* getStats, 4. Recent Runs: the FINISHED runs that have a RUNNER, with the
\* duration the page shows for each.
recentRuns(rs, ps) ==
    {[id |-> r, duration |-> rs[r].duration, ended_at |-> rs[r].ended_at] :
        r \in {x \in RunIds : /\ RunExists(rs, x)
                              /\ rs[x].status = "FINISHED"
                              /\ RunnerNames(ps, x) # <<>>}}

\* getStats, 5. Get Active Run: the rows the query may return as its first,
\* those of greatest created_at among the runs with status IN ('CREATED',
\* 'STARTED', 'PAUSED') joined to their RUNNER players (rows of equal created_at
\* come in no specified order).  Empty: the query returns null.
activeRun(rs, ps) ==
    LET rows == {[id |-> ps[i].run_id, created_at |-> rs[ps[i].run_id].created_at,
                  status |-> rs[ps[i].run_id].status,
                  minecraft_name |-> ps[i].minecraft_name] :
                    i \in {k \in 1..Len(ps) :
                             /\ RunExists(rs, ps[k].run_id)
                             /\ rs[ps[k].run_id].status \in {"CREATED", "STARTED", "PAUSED"}
                             /\ ps[k].role = "RUNNER"}}
    IN  {row \in rows : \A other \in rows : other.created_at <= row.created_at}

\* getStats, 2. Get Totals.
totals(rs) ==
    [total_runs |-> Cardinality({r \in RunIds : RunExists(rs, r)}),
     finished_runs |-> Cardinality({r \in RunIds : RunExists(rs, r)
                                                    /\ rs[r].status = "FINISHED"})]

\* The text of a status code of the hosting service.
statusMap ==
    (0 :> "OFFLINE" @@ 1 :> "ONLINE" @@ 2 :> "STARTING" @@ 3 :> "STOPPING"
     @@ 4 :> "RESTARTING" @@ 5 :> "SAVING" @@ 6 :> "LOADING" @@ 7 :> "CRASHED"
     @@ 8 :> "PENDING" @@ 10 :> "PREPARING")

\* getStats, 1. Get Server Status: 'UNKNOWN' without configuration, 'ERROR' when
\* getServerStatus throws (ok is whether it returns), else the text of the code.
serverStatus(configured, ok, srv) ==
    IF ~configured THEN "UNKNOWN"
    ELSE IF ~ok THEN "ERROR"
    ELSE IF srv \in DOMAIN statusMap THEN statusMap[srv]
    ELSE "UNKNOWN (status)"

\* What getStats returns.
getStats(configured, ok) ==
    [server_status |-> serverStatus(configured, ok, server),
     totals |-> totals(runs),
     leaderboard |-> leaderboard(runs, players),
     set_seed_leaderboard |-> setSeedLeaderboard(runs, players),
     recent_runs |-> recentRuns(runs, players),
     active_run |-> activeRun(runs, players)]

\* PublicStatsResponse over a getStats whose lookup is outside its try block:
\* the error of getServerStatus is the error of the request.
PublicStatsResponseLookupThrows(configured, ok, fail) ==
    IF fail # 0 \/ (configured /\ ~ok)
    THEN [code |-> 500, stats |-> <<>>]
    ELSE [code |-> 200, stats |-> getStats(configured, ok)]

\* GET /public-stats: getStats, or 500 when it throws (fail: one of its
\* database statements rejects).
PublicStatsResponse(configured, ok, fail) ==
    IF fail # 0
    THEN [code |-> 500, stats |-> <<>>]
    ELSE [code |-> 200, stats |-> getStats(configured, ok)]

PublicStats(configured, ok, fail) == UNCHANGED vars

\* The clock advances between (not during) requests.
Tick ==
    /\ now' = now + 1
    /\ UNCHANGED <<tables, foreign_keys, inflight, remote>>

(* ---------------------------------------------------------- orchestrator *)

\* What a call that returned did to the server, as the service reports it: stop
\* takes a server that is up to STOPPING, start takes an OFFLINE server to
\* STARTING, restart takes an ONLINE server to RESTARTING; the other calls (and
\* a call the service refuses in that status) leave the status alone.
ServerAfter(op, srv) ==
    CASE op = "stopServer" -> IF srv = OFFLINE THEN OFFLINE ELSE STOPPING
      [] op = "startServer" -> IF srv = OFFLINE THEN STARTING ELSE srv
      [] op = "restartServer" -> IF srv = ONLINE THEN RESTARTING ELSE srv
      [] OTHER -> srv

\* The service finishes what it was asked to do.
ServerProgress ==
    /\ server \in {STOPPING, STARTING, RESTARTING}
    /\ server' = IF server = STOPPING THEN OFFLINE ELSE ONLINE
    /\ UNCHANGED <<now, tables, foreign_keys, inflight, orch, calls, files>>

\* `await client.op(path)` by task o: the call is made and returns (ok) or
\* throws; ret is the status code a getServerStatus returned.
Await(o, op, path, ok) ==
    /\ calls' = Append(calls, [orch |-> o, op |-> op, path |-> path, ok |-> ok,
                               ret |-> IF ok /\ op = "getServerStatus" THEN server
                                       ELSE NULL])
    /\ server' = IF ok THEN ServerAfter(op, server) ELSE server

\* Caught answering the request again, with 500.
CaughtResponds500(task) == [task EXCEPT !.pc = "failed", !.resp = 500]

\* Caught that swallows the error where it was thrown: the call is made again.
CaughtRetries(task) == task

\* The outer catch of a background task: the error is logged, the task ends.
Caught(task) == [task EXCEPT !.pc = "failed"]

\* Both routes answer 500 without configuration and 202 otherwise, before the
\* background task has awaited anything.
TriggerResponse(configured) == IF configured THEN 202 ELSE 500

\* FirstAwait without the `if (seed)`: every task starts with stop.
FirstAwaitStops(route) == "stopServer"

\* FirstAwait of a reset or reseed that leaves the stop out.
FirstAwaitPolls(route) == IF route = "restart" THEN "restartServer" ELSE "getServerStatus"

\* The first await of a background task: the seedless restart is one call.
FirstAwait(route) == IF route = "restart" THEN "restartServer" ELSE "stopServer"

\* Launch behind a single-slot guard: refused while another task is in progress.
LaunchExclusive(o, route, seed, configured) ==
    /\ orch[o].pc = "idle"
    /\ \A p \in Orchs \ {o} : orch[p].pc \in Terminal \cup {"idle"}
    /\ orch' = [orch EXCEPT ![o] =
                  [@ EXCEPT !.route = route, !.seed = seed,
                            !.resp = TriggerResponse(configured),
                            !.pc = IF configured THEN FirstAwait(route) ELSE "rejected"]]
    /\ UNCHANGED <<now, tables, foreign_keys, inflight, calls, server, files>>

\* A request launches its task whatever the other tasks are doing: nothing is
\* read before `c.executionCtx.waitUntil` but the configuration.
Launch(o, route, seed, configured) ==
    /\ orch[o].pc = "idle"
    /\ orch' = [orch EXCEPT ![o] =
                  [@ EXCEPT !.route = route, !.seed = seed,
                            !.resp = TriggerResponse(configured),
                            !.pc = IF configured THEN FirstAwait(route) ELSE "rejected"]]
    /\ UNCHANGED <<now, tables, foreign_keys, inflight, calls, server, files>>

\* POST /api/run/reset.
Reset(o, configured) == Launch(o, "reset", "", configured)

\* POST /api/server/restart: with a seed the reseed sequence, without (or with a
\* body that does not parse) the plain restart.
Restart(o, seed, configured) ==
    Launch(o, IF seed # "" THEN "reseed" ELSE "restart", seed, configured)

\* 1. Stop Server.
StopServer(o, ok) ==
    /\ orch[o].pc = "stopServer"
    /\ Await(o, "stopServer", "", ok)
    /\ orch' = [orch EXCEPT ![o] =
                  IF ok THEN [@ EXCEPT !.pc = "getServerStatus"] ELSE Caught(@)]
    /\ UNCHANGED <<now, tables, foreign_keys, inflight, files>>

\* WaitMore with attempts <= 100.
WaitMoreInclusive(st, att) == st # OFFLINE /\ att <= MaxAttempts

\* The condition of the wait loop.
WaitMore(st, att) == st # OFFLINE /\ att < MaxAttempts

\* AfterPoll without `if (status !== 0) return`: out of the loop, on with the
\* route.
AfterPollNoAbort(route, st, att) ==
    IF WaitMore(st, att) THEN "setTimeout"
    ELSE IF route = "reseed" THEN "getFileContent"
    ELSE "deleteFile"

\* Where a task goes with the status a poll returned: round the loop again, or
\* out of it, to the abort or to the next step of its route.
AfterPoll(route, st, att) ==
    IF WaitMore(st, att) THEN "setTimeout"
    ELSE IF st # OFFLINE THEN "aborted"
    ELSE IF route = "reseed" THEN "getFileContent"
    ELSE "deleteFile"

\* 2. Wait for Offline: the poll before the loop.
FirstStatus(o, ok) ==
    /\ orch[o].pc = "getServerStatus"
    /\ Await(o, "getServerStatus", "", ok)
    /\ orch' = [orch EXCEPT ![o] =
                  IF ok
                  THEN [@ EXCEPT !.status = server, !.attempts = 0,
                                 !.pc = AfterPoll(orch[o].route, server, 0)]
                  ELSE Caught(@)]
    /\ UNCHANGED <<now, tables, foreign_keys, inflight, files>>

\* The loop body, first half: three seconds of sleep.
Sleep(o) ==
    /\ orch[o].pc = "setTimeout"
    /\ calls' = Append(calls, [orch |-> o, op |-> "setTimeout", path |-> "", ok |-> TRUE,
                               ret |-> NULL])
    /\ orch' = [orch EXCEPT ![o].pc = "poll"]
    /\ UNCHANGED <<now, tables, foreign_keys, inflight, server, files>>

\* The loop body, second half: the poll and attempts++.
Poll(o, ok) ==
    /\ orch[o].pc = "poll"
    /\ Await(o, "getServerStatus", "", ok)
    /\ orch' = [orch EXCEPT ![o] =
                  IF ok
                  THEN [@ EXCEPT !.status = server, !.attempts = @ + 1,
                                 !.pc = AfterPoll(orch[o].route, server,
                                                  orch[o].attempts + 1)]
                  ELSE Caught(@)]
    /\ UNCHANGED <<now, tables, foreign_keys, inflight, files>>

\* PropsCaught without the return: logged, and on to the deletes.
PropsCaughtGoesOn(task) == [task EXCEPT !.pc = "deleteFile"]

\* The catch around step 3 of the reseed: logged, and the task returns.
PropsCaught(task) == [task EXCEPT !.pc = "props_failed"]

\* 3. Update server.properties: the fetch.
GetFileContent(o, ok) ==
    /\ orch[o].pc = "getFileContent"
    /\ Await(o, "getFileContent", "server.properties", ok)
    /\ orch' = [orch EXCEPT ![o] =
                  IF ok THEN [@ EXCEPT !.pc = "uploadFile", !.propsContent = files]
                  ELSE PropsCaught(@)]
    /\ UNCHANGED <<now, tables, foreign_keys, inflight, files>>

\* 3. Update server.properties: the upload of the rewritten text.
UploadFile(o, ok) ==
    /\ orch[o].pc = "uploadFile"
    /\ Await(o, "uploadFile", "server.properties", ok)
    /\ orch' = [orch EXCEPT ![o] =
                  IF ok THEN [@ EXCEPT !.pc = "deleteFile"] ELSE PropsCaught(@)]
    /\ files' = IF ok THEN newContent(orch[o].propsContent, orch[o].seed) ELSE files
    /\ UNCHANGED <<now, tables, foreign_keys, inflight>>

\* A deleteFile that throws: the reset wraps its three deletes in a try whose
\* catch warns and goes on to the start; the reseed does not, and the throw
\* reaches the outer catch.
DeleteCaught(task) ==
    IF task.route = "reset" THEN [task EXCEPT !.pc = "startServer"] ELSE Caught(task)

\* Delete World: one of the three deletes.
DeleteFile(o, ok) ==
    /\ orch[o].pc = "deleteFile"
    /\ Await(o, "deleteFile", WorldDirs[orch[o].dir], ok)
    /\ orch' = [orch EXCEPT ![o] =
                  IF ~ok THEN DeleteCaught(@)
                  ELSE IF orch[o].dir < Len(WorldDirs)
                  THEN [@ EXCEPT !.dir = @ + 1]
                  ELSE [@ EXCEPT !.pc = "startServer"]]
    /\ UNCHANGED <<now, tables, foreign_keys, inflight, files>>

\* Start Server: the last await of a reset or reseed.
StartServer(o, ok) ==
    /\ orch[o].pc = "startServer"
    /\ Await(o, "startServer", "", ok)
    /\ orch' = [orch EXCEPT ![o] = IF ok THEN [@ EXCEPT !.pc = "done"] ELSE Caught(@)]
    /\ UNCHANGED <<now, tables, foreign_keys, inflight, files>>

\* Standard restart: the only await of a restart without seed.
RestartServer(o, ok) ==
    /\ orch[o].pc = "restartServer"
    /\ Await(o, "restartServer", "", ok)
    /\ orch' = [orch EXCEPT ![o] = IF ok THEN [@ EXCEPT !.pc = "done"] ELSE Caught(@)]
    /\ UNCHANGED <<now, tables, foreign_keys, inflight, files>>

\* One step of the background task o.
Step(o, ok) ==
    \/ StopServer(o, ok)
    \/ FirstStatus(o, ok)
    \/ Sleep(o)
    \/ Poll(o, ok)
    \/ GetFileContent(o, ok)
    \/ UploadFile(o, ok)
    \/ DeleteFile(o, ok)
    \/ StartServer(o, ok)
    \/ RestartServer(o, ok)

\* The clock read at a later instant t (requests may be hours apart).
TickTo(t) ==
    /\ t > now
    /\ now' = t
    /\ UNCHANGED <<tables, foreign_keys, inflight, remote>>

(* ----------------------------------------------------------------- specs *)

\* The number of rows of time_logs.
RECURSIVE LogRows(_, _)
LogRows(tl, R) ==
    IF R = {} THEN 0
    ELSE LET r == CHOOSE x \in R : TRUE IN Len(tl[r]) + LogRows(tl, R \ {r})

\* Room for one more row of time_logs, within the bounds of the model.
LogRoom == LogRows(time_logs, RunIds) < MaxLogs

PairLogRoom == LogRows(time_logs, RunIds) < MaxPairLogs

\* The players array of a well-formed init request.
Team == <<[name |-> "p1", role |-> "RUNNER"], [name |-> "p2", role |-> "SPECTATOR"]>>

(* -------------------------------------------------------- authentication *)

\* The values of the X-API-Key header ("" is no header) and of the API_SECRET
\* binding ("" is unset: `!validKey`).
Keys == {"", "k1", "k2"}

Secrets == {"", "k1"}

\* AuthResponse that fails open: without a secret every request passes.
AuthResponseFailsOpen(apiKey, validKey) ==
    IF validKey = "" THEN 0
    ELSE IF apiKey = "" \/ apiKey # validKey THEN 401
    ELSE 0

\* The middleware on /api/*: the status it answers with, or 0 where it calls
\* next().
AuthResponse(apiKey, validKey) ==
    IF validKey = "" THEN 500
    ELSE IF apiKey = "" \/ apiKey # validKey THEN 401
    ELSE 0

\* A request on an /api/* path: its handler runs only behind `await next()`.
Api(apiKey, validKey, handler) ==
    IF AuthResponse(apiKey, validKey) = 0 THEN handler ELSE UNCHANGED vars

\* The routes behind the middleware, as one client may call them for run r1
\* and task o1.
ApiInitRun(k, v) == Api(k, v, InitRun("r1", "TEAM", "s1", Team, 0))

ApiUpdateState(k, v) ==
    Api(k, v, \E a \in {"START", "PAUSE"} : UpdateState("r1", a, 0))

ApiCheat(k, v) == Api(k, v, Cheat("r1", "p1", 0))

ApiFinish(k, v) == Api(k, v, Finish("r1", 0))

ApiStats(k, v) == Api(k, v, Stats("r1", 0))

ApiInitDb(k, v) == Api(k, v, InitDb(0))

ApiReset(k, v) == Api(k, v, Reset("o1", TRUE))

ApiRestart(k, v) == Api(k, v, \E seed \in {"", "s1"} : Restart("o1", seed, TRUE))

(* Spec: the life of one run.  Every ledger request a client may send about  *)
(* run r1, with missing and invalid fields, in any order and at any time;    *)
(* init-db may wipe the tables at any point.  No statement fails but for the *)
(* foreign key.                                                              *)
Next ==
    \/ \E r \in {"r1", ""}, t \in {"TEAM", ""}, s \in {"s1", ""},
          ps \in PlayerLists \cup {NoPlayers} :
          InitRun(r, t, s, ps, 0)
    \/ \E r \in {"r1", ""}, a \in ActionInputs : LogRoom /\ UpdateState(r, a, 0)
    \/ LogRoom /\ Finish("r1", 0)
    \/ Stats("r1", 0)
    \/ InitDb(0)
    \/ now < MaxTime /\ Tick

Spec == Init /\ [][Next]_vars

(* SpecSeeds: two runs on two seeds, initialised and finished in any order.  *)
NextSeeds ==
    \/ \E r \in RunIds, s \in Seeds : InitRun(r, "TEAM", s, Team, 0)
    \/ \E r \in RunIds : LogRoom /\ Finish(r, 0)
    \/ InitDb(0)
    \/ now < MaxTime /\ Tick

SpecSeeds == Init /\ [][NextSeeds]_vars

(* SpecStartPause: one run whose client sends START and PAUSE only, in any   *)
(* order and at any time: longer logs over the two-word vocabulary.          *)
NextStartPause ==
    \/ InitRun("r1", "TEAM", "s1", Team, 0)
    \/ \E a \in {"START", "PAUSE"} : PairLogRoom /\ UpdateState("r1", a, 0)
    \/ Stats("r1", 0)
    \/ now < MaxPairTime /\ Tick

SpecStartPause == Init /\ [][NextStartPause]_vars

(* SpecElapsed: one run taken through every action of update-state and      *)
(* through finish, in any order and at any time.                             *)
NextElapsed ==
    \/ InitRun("r1", "TEAM", "s1", Team, 0)
    \/ \E a \in StateActions : LogRoom /\ UpdateState("r1", a, 0)
    \/ LogRoom /\ Finish("r1", 0)
    \/ now < MaxTime /\ Tick

SpecElapsed == Init /\ [][NextElapsed]_vars

(* SpecFail: one run started, paused and finished, where any of the six      *)
(* awaits of finish may throw; the client may send finish again.             *)
NextFail ==
    \/ InitRun("r1", "TEAM", "s1", Team, 0)
    \/ \E a \in {"START", "PAUSE"} : LogRoom /\ UpdateState("r1", a, 0)
    \/ \E fail \in 0..6 : LogRoom /\ Finish("r1", fail)
    \/ now < MaxTime /\ Tick

SpecFail == Init /\ [][NextFail]_vars

\* Instants, in milliseconds, around the second, the minute, the hour and the
\* day.
FormatTimes == {0, 999, 1000, 59000, 59999, 60000, 3661000, 90061999}

(* SpecFormat: one run started and paused at instants seconds to a day apart *)
(* and queried: what calculateStats formats.                                 *)
NextFormat ==
    \/ InitRun("r1", "TEAM", "s1", Team, 0)
    \/ \E a \in {"START", "PAUSE"} : LogRoom /\ UpdateState("r1", a, 0)
    \/ Stats("r1", 0)
    \/ \E t \in FormatTimes : TickTo(t)

SpecFormat == Init /\ [][NextFormat]_vars

(* SpecAuth: the routes of /api/* called with every header and under every  *)
(* setting of the secret, and the background task of an admitted reset or    *)
(* restart; no statement and no call fails.                                  *)
NextAuth ==
    \/ \E k \in Keys, v \in Secrets : ApiInitRun(k, v)
    \/ \E k \in Keys, v \in Secrets : LogRoom /\ ApiUpdateState(k, v)
    \/ \E k \in Keys, v \in Secrets : Len(cheat_logs) < MaxLogs /\ ApiCheat(k, v)
    \/ \E k \in Keys, v \in Secrets : LogRoom /\ ApiFinish(k, v)
    \/ \E k \in Keys, v \in Secrets : ApiStats(k, v)
    \/ \E k \in Keys, v \in Secrets : ApiInitDb(k, v)
    \/ \E k \in Keys, v \in Secrets : ApiReset(k, v)
    \/ \E k \in Keys, v \in Secrets : ApiRestart(k, v)
    \/ orch["o1"].attempts < MaxWait /\ Sleep("o1")
    \/ StopServer("o1", TRUE)
    \/ FirstStatus("o1", TRUE)
    \/ Poll("o1", TRUE)
    \/ GetFileContent("o1", TRUE)
    \/ UploadFile("o1", TRUE)
    \/ DeleteFile("o1", TRUE)
    \/ StartServer("o1", TRUE)
    \/ RestartServer("o1", TRUE)
    \/ ServerProgress

SpecAuth == Init /\ [][NextAuth]_vars

\* The rows of time_logs the requests in progress may still insert.
Pending == Cardinality({q \in Reqs : inflight[q] # IdleReq})

\* Room for one more request: a slot is free (the first free one is taken) and
\* so is a row of time_logs, within the bounds of the model.
StepRoom(q) ==
    /\ q = "q1" \/ inflight["q1"] # IdleReq
    /\ LogRows(time_logs, RunIds) + Pending < MaxLogs

(* SpecSteps: one run whose client sends START, PAUSE and finish without     *)
(* waiting for the answers, up to two requests in progress at a time, each   *)
(* advancing one await at a time; the status page may be loaded at any       *)
(* moment.  No statement fails.                                              *)
NextSteps ==
    \/ InitRun("r1", "TEAM", "s1", Team, 0)
    \/ \E q \in Reqs, a \in {"START", "PAUSE"} :
          StepRoom(q) /\ BeginUpdateState(q, "r1", a)
    \/ \E q \in Reqs : UpdateStateStmt1(q, TRUE)
    \/ \E q \in Reqs : UpdateStateStmt2(q, TRUE)
    \/ \E q \in Reqs : StepRoom(q) /\ BeginFinish(q, "r1")
    \/ \E q \in Reqs : FinishStmt1(q, TRUE)
    \/ \E q \in Reqs : FinishStmt2(q, TRUE)
    \/ \E q \in Reqs : FinishStmt3(q, TRUE)
    \/ \E q \in Reqs : FinishStmt4(q, TRUE)
    \/ \E q \in Reqs : FinishStmt5(q, TRUE)
    \/ \E q \in Reqs : FinishStmt6(q, TRUE)
    \/ Stats("r1", 0)
    \/ now < MaxStepTime /\ Tick

SpecSteps == Init /\ [][NextSteps]_vars

(* SpecRace: as SpecSteps, for a client that sends START, PAUSE and finish   *)
(* only for the run it has created.                                          *)
NextRace ==
    \/ InitRun("r1", "TEAM", "s1", Team, 0)
    \/ \E q \in Reqs, a \in {"START", "PAUSE"} :
          RunExists(runs, "r1") /\ StepRoom(q) /\ BeginUpdateState(q, "r1", a)
    \/ \E q \in Reqs : UpdateStateStmt1(q, TRUE)
    \/ \E q \in Reqs : UpdateStateStmt2(q, TRUE)
    \/ \E q \in Reqs : RunExists(runs, "r1") /\ StepRoom(q) /\ BeginFinish(q, "r1")
    \/ \E q \in Reqs : FinishStmt1(q, TRUE)
    \/ \E q \in Reqs : FinishStmt2(q, TRUE)
    \/ \E q \in Reqs : FinishStmt3(q, TRUE)
    \/ \E q \in Reqs : FinishStmt4(q, TRUE)
    \/ \E q \in Reqs : FinishStmt5(q, TRUE)
    \/ \E q \in Reqs : FinishStmt6(q, TRUE)
    \/ now < MaxStepTime /\ Tick

SpecRace == Init /\ [][NextRace]_vars

(* SpecCheat: one run started, paused and finished while cheat reports come  *)
(* in about it, from two players, and about a run that has no row; a         *)
(* report's INSERT may fail.                                                 *)
NextCheat ==
    \/ InitRun("r1", "TEAM", "s1", Team, 0)
    \/ \E a \in {"START", "PAUSE"} : LogRoom /\ UpdateState("r1", a, 0)
    \/ \E p \in {"p1", "p2"}, fail \in 0..1 :
          Len(cheat_logs) < MaxLogs /\ Cheat("r1", p, fail)
    \/ \E fail \in 0..1 : Len(cheat_logs) < MaxLogs /\ Cheat("r2", "p1", fail)
    \/ LogRoom /\ Finish("r1", 0)
    \/ Stats("r1", 0)
    \/ now < MaxStepTime /\ Tick

SpecCheat == Init /\ [][NextCheat]_vars

(* SpecBoard: two runs, created with or without set_seed, started, finished *)
(* and started again in any order; a finish may fail at its last statement,  *)
(* which leaves a FINISHED run without duration.                             *)
NextBoard ==
    \/ \E r \in RunIds, set_seed \in BOOLEAN :
          InitRunSetSeed(r, "TEAM", "s1", Team, set_seed, 0)
    \/ \E r \in RunIds : LogRoom /\ UpdateState(r, "START", 0)
    \/ \E r \in RunIds, fail \in {0, 6} : LogRoom /\ Finish(r, fail)
    \/ now < MaxStepTime /\ Tick

SpecBoard == Init /\ [][NextBoard]_vars

(* SpecActive: two runs created, started, paused and aborted in any order,   *)
(* and the public stats loaded at any moment.                                *)
NextActive ==
    \/ \E r \in RunIds : InitRun(r, "TEAM", "s1", Team, 0)
    \/ \E r \in RunIds, a \in {"START", "PAUSE", "ABORT"} :
          LogRoom /\ UpdateState(r, a, 0)
    \/ PublicStats(TRUE, TRUE, 0)
    \/ now < MaxStepTime /\ Tick

SpecActive == Init /\ [][NextActive]_vars

(* SpecPublic: one run created, started and finished, a reset of the server *)
(* under way, and the public stats loaded at any moment, with or without    *)
(* configuration, the status lookup returning or throwing.                   *)
NextPublic ==
    \/ \E set_seed \in BOOLEAN : InitRunSetSeed("r1", "TEAM", "s1", Team, set_seed, 0)
    \/ \E a \in {"START", "PAUSE"} : LogRoom /\ UpdateState("r1", a, 0)
    \/ LogRoom /\ Finish("r1", 0)
    \/ \E configured \in BOOLEAN, ok \in BOOLEAN, fail \in 0..1 :
          PublicStats(configured, ok, fail)
    \/ Reset("o1", TRUE)
    \/ StopServer("o1", TRUE)
    \/ FirstStatus("o1", TRUE)
    \/ orch["o1"].attempts < MaxWait /\ Sleep("o1")
    \/ Poll("o1", TRUE)
    \/ DeleteFile("o1", TRUE)
    \/ StartServer("o1", TRUE)
    \/ ServerProgress
    \/ now < MaxStepTime /\ Tick

SpecPublic == Init /\ [][NextPublic]_vars

(* SpecOrch: one request to /api/run/reset or /api/server/restart, with or  *)
(* without seed and configuration, and its background task; any call may     *)
(* throw, the service takes its time.                                        *)
NextOrch ==
    \/ \E configured \in BOOLEAN : Reset("o1", configured)
    \/ \E seed \in {"", "s1"}, configured \in BOOLEAN : Restart("o1", seed, configured)
    \/ \E ok \in BOOLEAN : StopServer("o1", ok)
    \/ \E ok \in BOOLEAN : FirstStatus("o1", ok)
    \/ Sleep("o1")
    \/ \E ok \in BOOLEAN : Poll("o1", ok)
    \/ \E ok \in BOOLEAN : GetFileContent("o1", ok)
    \/ \E ok \in BOOLEAN : UploadFile("o1", ok)
    \/ \E ok \in BOOLEAN : DeleteFile("o1", ok)
    \/ \E ok \in BOOLEAN : StartServer("o1", ok)
    \/ \E ok \in BOOLEAN : RestartServer("o1", ok)
    \/ ServerProgress

SpecOrch == Init /\ [][NextOrch]_vars

(* SpecOrchTwo: two requests, a reset and a reseed, configured, at any        *)
(* distance from each other, and their two tasks against the one server;     *)
(* every call returns.                                                       *)
NextOrchTwo ==
    \/ Reset("o1", TRUE)
    \/ Restart("o2", "s1", TRUE)
    \/ \E o \in Orchs : StopServer(o, TRUE)
    \/ \E o \in Orchs : FirstStatus(o, TRUE)
    \/ \E o \in Orchs : orch["o1"].attempts + orch["o2"].attempts < MaxWait /\ Sleep(o)
    \/ \E o \in Orchs : Poll(o, TRUE)
    \/ \E o \in Orchs : GetFileContent(o, TRUE)
    \/ \E o \in Orchs : UploadFile(o, TRUE)
    \/ \E o \in Orchs : DeleteFile(o, TRUE)
    \/ \E o \in Orchs : StartServer(o, TRUE)
    \/ ServerProgress

SpecOrchTwo == Init /\ [][NextOrchTwo]_vars

(* SpecOrchFair: SpecOrch in which the task, once launched, keeps being run: *)
(* every call it awaits returns or throws.  Nothing is asked of the service. *)
\* Spec: one reseed over every server.properties of up to MaxPropLines lines
\* drawn from PropLines, and every seed of ReseedSeeds.
PropLines ==
    { <<>>,                          \* an empty line
      Key,                           \* 'level-seed='
      Key \o <<"0">>,                \* 'level-seed=0'
      <<" ">> \o Key,                \* ' level-seed=': the key after a blank
      SubSeq(Key, 1, Len(Key) - 1),  \* 'level-seed': the key without its '='
      <<"p", "\r">> }                \* another property, ending in a carriage return

PropsTexts ==
    { join(ls) : ls \in UNION { [1..n -> PropLines] : n \in 1..MaxPropLines } }

ReseedSeeds == {"s1", "s2", "7\nx"}

InitProps ==
    /\ now = 0
    /\ runs = [r \in RunIds |-> NoRun]
    /\ players = <<>>
    /\ time_logs = [r \in RunIds |-> <<>>]
    /\ cheat_logs = <<>>
    /\ solved_seeds = [s \in Seeds |-> NULL]
    /\ foreign_keys = TRUE
    /\ inflight = [q \in Reqs |-> IdleReq]
    /\ orch = [o \in Orchs |-> Idle]
    /\ calls = <<>>
    /\ server = ONLINE
    /\ files \in PropsTexts

NextProps ==
    \/ \E seed \in ReseedSeeds : Restart("o1", seed, TRUE)
    \/ StopServer("o1", TRUE)
    \/ FirstStatus("o1", TRUE)
    \/ orch["o1"].attempts < MaxWait /\ Sleep("o1")
    \/ Poll("o1", TRUE)
    \/ \E ok \in BOOLEAN : GetFileContent("o1", ok)
    \/ \E ok \in BOOLEAN : UploadFile("o1", ok)
    \/ DeleteFile("o1", TRUE)
    \/ StartServer("o1", TRUE)
    \/ ServerProgress

SpecProps == InitProps /\ [][NextProps]_vars

SpecOrchFair == SpecOrch /\ WF_vars(\E ok \in BOOLEAN : Step("o1", ok))

(* ------------------------------------------------- the accounting contract *)
(* What the specification says of the elapsed time, stated over the ordered  *)
(* log without the loop of calculateStats: the clock is on after a prefix of *)
(* the log iff the prefix holds a clock-on edge with no clock-off edge       *)
(* behind it.                                                                *)

IsOn(row) == row.action \in {"START", "RESUME"}

IsOff(row) == row.action \in {"PAUSE", "END"}

\* Whether the clock is on when row i of ord is replayed.
ClockOnBefore(ord, i) ==
    \E j \in 1..(i - 1) : IsOn(ord[j]) /\ \A k \in (j + 1)..(i - 1) : ~IsOff(ord[k])

\* The edges that change the clock: an on edge met with the clock off, an off
\* edge met with the clock on.
EffectiveOn(ord) == {i \in 1..Len(ord) : IsOn(ord[i]) /\ ~ClockOnBefore(ord, i)}

EffectiveOff(ord) == {i \in 1..Len(ord) : IsOff(ord[i]) /\ ClockOnBefore(ord, i)}

\* The timestamp of the last effective on edge before row i.
OpenedAt(ord, i) ==
    LET before == {j \in EffectiveOn(ord) : j < i}
    IN  ord[CHOOSE j \in before : \A k \in before : k <= j].timestamp

\* The sum of the closed intervals that end at the rows in S.
RECURSIVE ClosedSum(_, _)
ClosedSum(ord, S) ==
    IF S = {} THEN 0
    ELSE LET i == CHOOSE x \in S : TRUE
         IN  (ord[i].timestamp - OpenedAt(ord, i)) + ClosedSum(ord, S \ {i})

ClosedTotal(ord) == ClosedSum(ord, EffectiveOff(ord))

ClockOnAtEnd(ord) == ClockOnBefore(ord, Len(ord) + 1)

\* The duration_ms a stats query for run r1 returns now.
StatsMs == StatsResponse("r1", 0).stats.duration_ms

\* The time log of run r1 as the stats query reads it.
Log1 == OrderByTimestamp(time_logs["r1"])

(* ------------------------------------------------------------------ C1 *)

\* START at the odd rows, PAUSE at the even rows, timestamps strictly increasing,
\* every START matched by a PAUSE.
StartPausePairs(rows) ==
    /\ Len(rows) % 2 = 0
    /\ \A i \in 1..Len(rows) : rows[i].action = (IF i % 2 = 1 THEN "START" ELSE "PAUSE")
    /\ \A i \in 1..(Len(rows) - 1) : rows[i].timestamp < rows[i + 1].timestamp

\* pause_1 - start_1 + ... + pause_n - start_n over the first 2n rows.
RECURSIVE PairSum(_, _)
PairSum(rows, n) ==
    IF n = 0 THEN 0
    ELSE (rows[2 * n].timestamp - rows[2 * n - 1].timestamp) + PairSum(rows, n - 1)

\* C1: whenever the time log of a run consists of START/PAUSE pairs with strictly
\* increasing timestamps, the elapsed milliseconds calculateStats computes are
\* the sum of pause_i - start_i over the pairs, whatever the time of the query.
C1_PairsSum ==
    (RunExists(runs, "r1") /\ StartPausePairs(time_logs["r1"]))
        => StatsMs = PairSum(time_logs["r1"], Len(time_logs["r1"]) \div 2)

\* Two pairs with a pause between them, queried after the last pause:
\* START@0, PAUSE@1, START@2, PAUSE@3 read at 4 is 2 ms.
C1_Witness ==
    /\ RunExists(runs, "r1")
    /\ StartPausePairs(time_logs["r1"])
    /\ Len(time_logs["r1"]) = 4
    /\ time_logs["r1"][1].timestamp = 0
    /\ time_logs["r1"][3].timestamp > time_logs["r1"][2].timestamp
    /\ now > time_logs["r1"][4].timestamp
    /\ StatsMs = 2

(* ------------------------------------------------------------------ C2 *)

\* C2: an edge that does not change the clock is a no-op of the fold.  Whenever
\* a request appends a START or RESUME row to the log of a run whose clock is
\* on, or a PAUSE or END row to the log of a run whose clock is off, the elapsed
\* time of the run is what it was without the row, at the time of the request
\* and at every later query time (the last-on timestamp has not moved).
C2_RedundantEdgeNoOp ==
    [][LET old == time_logs["r1"]
           new == time_logs'["r1"]
       IN  (Len(new) = Len(old) + 1 /\ SubSeq(new, 1, Len(old)) = old)
             => LET row == new[Len(new)]
                    on == ClockOnAtEnd(OrderByTimestamp(old))
                IN  ((IsOn(row) /\ on) \/ (IsOff(row) /\ ~on))
                      => \A t \in now..(MaxTime + 1) : ElapsedMs(new, t) = ElapsedMs(old, t)
      ]_vars

\* START@0, RESUME@1, PAUSE@2 is 2 ms, not 1 ms.
C2_Witness ==
    /\ RunExists(runs, "r1")
    /\ time_logs["r1"] = <<[action |-> "START", timestamp |-> 0],
                           [action |-> "RESUME", timestamp |-> 1],
                           [action |-> "PAUSE", timestamp |-> 2]>>
    /\ StatsMs = 2

(* ------------------------------------------------------------------ C3 *)

\* C3: when the replay of a run's time log ends with the clock on, a stats query
\* at time now returns the total of the closed intervals plus now minus the
\* timestamp of the last effective clock-on edge.
C3_LiveElapsed ==
    (RunExists(runs, "r1") /\ ClockOnAtEnd(Log1))
        => StatsMs = ClosedTotal(Log1) + (now - OpenedAt(Log1, Len(Log1) + 1))

\* START@0 queried at 2 is 2 ms.
C3_Witness ==
    /\ RunExists(runs, "r1")
    /\ time_logs["r1"] = <<[action |-> "START", timestamp |-> 0]>>
    /\ now = 2
    /\ StatsMs = 2

(* ------------------------------------------------------------------ C4 *)

\* A clock-on edge, an ABORT or FAIL row behind it, and no PAUSE or END row
\* behind the clock-on edge.
AbortedClockOn(ord) ==
    \E i \in 1..Len(ord) :
        /\ IsOn(ord[i])
        /\ \E j \in (i + 1)..Len(ord) : ord[j].action \in {"ABORT", "FAIL"}
        /\ \A k \in (i + 1)..Len(ord) : ~IsOff(ord[k])

\* An ABORT or FAIL row with a PAUSE or END row behind it and no clock-on edge
\* behind that.
AbortedClockOff(ord) ==
    \E j \in 1..Len(ord) :
        /\ ord[j].action \in {"ABORT", "FAIL"}
        /\ \E k \in (j + 1)..Len(ord) : IsOff(ord[k])
        /\ ~ClockOnAtEnd(ord)

\* C4: ABORT and FAIL rows never stop the clock.  While the log of a run holds a
\* START or RESUME followed by an ABORT or FAIL and no later PAUSE or END, the
\* elapsed time stats reports grows with the query time (by one for every
\* millisecond that passes); once a PAUSE or END row follows, it no longer grows.
C4_AbortKeepsClock ==
    [][(now' = now + 1 /\ UNCHANGED tables /\ RunExists(runs, "r1"))
          => LET later == calculateStats(runs', players', time_logs', cheat_logs',
                                         "r1", now').duration_ms
             IN  /\ AbortedClockOn(Log1) => later = StatsMs + 1
                 /\ AbortedClockOff(Log1) => later = StatsMs
      ]_vars

\* START@0, FAIL@1 queried at 2: the run is FAILED and its elapsed time is 2 ms.
C4_Witness ==
    /\ RunExists(runs, "r1")
    /\ runs["r1"].status = "FAILED"
    /\ time_logs["r1"] = <<[action |-> "START", timestamp |-> 0],
                           [action |-> "FAIL", timestamp |-> 1]>>
    /\ now = 2
    /\ StatsMs = 2

\* START@0, ABORT@0, PAUSE@1 queried at 2: the clock stopped at the PAUSE.
C4_WitnessStopped ==
    /\ RunExists(runs, "r1")
    /\ time_logs["r1"] = <<[action |-> "START", timestamp |-> 0],
                           [action |-> "ABORT", timestamp |-> 0],
                           [action |-> "PAUSE", timestamp |-> 1]>>
    /\ now = 2
    /\ StatsMs = 1

(* ------------------------------------------------------------------ C5 *)

\* C5: a finish request on an existing run that succeeds at time t leaves the
\* run FINISHED with ended_at = t, one new END row with timestamp t at the end of
\* its time log, its seed in solved_seeds, and a duration equal to the elapsed
\* time of the log with the new row: the total of its closed intervals, the
\* clock being off at the end.
C5_FinishEffects ==
    [][(Finish("r1", 0) /\ RunExists(runs, "r1") /\ FinishResponse("r1", 0).code = 200)
          => LET ord == OrderByTimestamp(time_logs'["r1"])
             IN  /\ runs'["r1"].status = "FINISHED"
                 /\ runs'["r1"].ended_at = now
                 /\ time_logs'["r1"] =
                        Append(time_logs["r1"], [action |-> "END", timestamp |-> now])
                 /\ solved_seeds'[runs["r1"].seed] # NULL
                 /\ ~ClockOnAtEnd(ord)
                 /\ runs'["r1"].duration = ClosedTotal(ord)
                 /\ FinishResponse("r1", 0).stats.duration_ms = runs'["r1"].duration
      ]_vars

\* START@0 and a finish at 2: FINISHED, ended at 2, END@2 logged, seed solved,
\* duration 2.
C5_Witness ==
    /\ runs["r1"].status = "FINISHED"
    /\ runs["r1"].ended_at = 2
    /\ now = 2
    /\ time_logs["r1"] = <<[action |-> "START", timestamp |-> 0],
                           [action |-> "END", timestamp |-> 2]>>
    /\ solved_seeds[runs["r1"].seed] = 2
    /\ runs["r1"].duration = 2

(* ------------------------------------------------------------------ C6 *)

\* The last lifecycle request about run r1 was a finish that succeeded: every
\* update-state since would have changed the status and added a row.
JustFinished ==
    /\ RunExists(runs, "r1")
    /\ runs["r1"].status = "FINISHED"
    /\ runs["r1"].duration # NULL
    /\ Len(time_logs["r1"]) > 0
    /\ time_logs["r1"][Len(time_logs["r1"])] =
          [action |-> "END", timestamp |-> runs["r1"].ended_at]

\* C6: a finish that follows a finish of the same run, with no other lifecycle
\* request between them, appends a second END row that is a no-op of the fold
\* and persists the duration the first finish persisted, however much later
\* it comes.
C6_FinishTwice ==
    [][(Finish("r1", 0) /\ JustFinished)
          => /\ time_logs'["r1"] =
                    Append(time_logs["r1"], [action |-> "END", timestamp |-> now])
             /\ ElapsedMs(time_logs'["r1"], now) = ElapsedMs(time_logs["r1"], now)
             /\ runs'["r1"].duration = runs["r1"].duration
      ]_vars

\* START@0, finish at 1, finish at 2: the duration stays 1.
C6_Witness ==
    /\ JustFinished
    /\ time_logs["r1"] = <<[action |-> "START", timestamp |-> 0],
                           [action |-> "END", timestamp |-> 1],
                           [action |-> "END", timestamp |-> 2]>>
    /\ runs["r1"].ended_at = 2
    /\ runs["r1"].duration = 1

(* ------------------------------------------------------------------ C7 *)

\* C7: solved_seeds is insert-if-absent.  It holds at most one row per seed (its
\* key); a finish of an existing run whose seed has no row gives it the time of
\* that finish, and no finish, of the same run or of another run on the seed,
\* changes the solved_at of a seed that has a row or gives a row to another seed.
C7_SolvedOnce ==
    [][\A r \in RunIds :
          Finish(r, 0)
            => \A s \in Seeds :
                  solved_seeds'[s] =
                     IF solved_seeds[s] # NULL THEN solved_seeds[s]
                     ELSE IF RunExists(runs, r) /\ runs[r].seed = s THEN now
                     ELSE NULL
      ]_vars

\* Two runs on seed s1, r1 finished at 1 and r2 at 2: s1 is solved at 1.
C7_Witness ==
    /\ runs["r1"].seed = "s1" /\ runs["r2"].seed = "s1"
    /\ runs["r1"].status = "FINISHED" /\ runs["r1"].ended_at = 1
    /\ runs["r2"].status = "FINISHED" /\ runs["r2"].ended_at = 2
    /\ solved_seeds["s1"] = 1
    /\ solved_seeds["s2"] = NULL

(* ------------------------------------------------------------------ C8 *)

\* The mapping the specification gives from actions to statuses.
MappedStatus ==
    [a \in StateActions |->
        IF a \in {"START", "RESUME"} THEN "RUNNING"
        ELSE IF a = "PAUSE" THEN "PAUSED"
        ELSE IF a = "ABORT" THEN "ABORTED"
        ELSE "FAILED"]

\* C8: an update-state request about an existing run with an action among START,
\* RESUME, PAUSE, ABORT, FAIL succeeds whatever the status of the run, sets the
\* status the action maps to, and appends exactly one row to the time log of the
\* run, carrying the action as sent and the time of the request.
C8_UpdateState ==
    [][\A a \in StateActions :
          (UpdateState("r1", a, 0) /\ RunExists(runs, "r1"))
            => /\ UpdateStateResponse("r1", a, 0).code = 200
               /\ runs'["r1"] = [runs["r1"] EXCEPT !.status = MappedStatus[a]]
               /\ time_logs'["r1"] =
                      Append(time_logs["r1"], [action |-> a, timestamp |-> now])
      ]_vars

\* A finished run sent RESUME: RUNNING again, the row says RESUME.
C8_Witness ==
    /\ runs["r1"].status = "RUNNING"
    /\ runs["r1"].duration # NULL
    /\ Len(time_logs["r1"]) = 3
    /\ time_logs["r1"][2].action = "END"
    /\ time_logs["r1"][3].action = "RESUME"

(* ------------------------------------------------------------------ C9 *)

\* C9: an update-state request whose action is none of START, RESUME, PAUSE,
\* ABORT, FAIL (END, an unknown word, nothing) is answered 400 and leaves runs
\* and time_logs as they are: no row is appended, no status changes.
C9_InvalidAction ==
    \A r \in {"r1", ""}, a \in ActionInputs \ StateActions :
        /\ UpdateStateResponse(r, a, 0).code = 400
        /\ UpdateStateRuns(r, a, 0) = runs
        /\ UpdateStateLogs(r, a, 0) = time_logs

\* A RUNNING run with room in its log is sent END.
C9_Witness ==
    /\ runs["r1"].status = "RUNNING"
    /\ Len(time_logs["r1"]) = 1
    /\ LogRoom
    /\ UpdateStateResponse("r1", "END", 0).code = 400
    /\ UpdateStateLogs("r1", "END", 0) = time_logs

(* ----------------------------------------------------------------- C10 *)

\* C10: the duration of a run is NULL as long as the run has never been
\* FINISHED (ended_at, set with the status by finish, is NULL until then), and
\* every step that writes a duration is a finish of that run, which leaves it
\* FINISHED: init and update-state never write the column.
C10_DurationOnlyByFinish ==
    /\ [](\A r \in RunIds : runs[r].ended_at = NULL => runs[r].duration = NULL)
    /\ [][\A r \in RunIds :
             (runs'[r].duration # runs[r].duration /\ runs'[r].duration # NULL)
               => (Finish(r, 0) /\ runs'[r].status = "FINISHED")
         ]_vars

\* A run started at 0 and paused at 2, never finished: no duration.
C10_Witness ==
    /\ runs["r1"].status = "PAUSED"
    /\ time_logs["r1"] = <<[action |-> "START", timestamp |-> 0],
                           [action |-> "PAUSE", timestamp |-> 2]>>
    /\ runs["r1"].ended_at = NULL
    /\ runs["r1"].duration = NULL

(* ----------------------------------------------------------------- C11 *)

\* C11: as long as run r1 stays in the ledger, no step (an update-state, a
\* finish, a stats query, the clock moving on) makes the duration_ms a stats
\* query returns smaller than the one a query before the step returned, and no
\* finish persists a duration smaller than the one persisted before.
C11_DurationMonotonic ==
    [][(RunExists(runs, "r1") /\ RunExists(runs', "r1"))
          => /\ calculateStats(runs', players', time_logs', cheat_logs', "r1", now').duration_ms
                   >= StatsMs
             /\ runs["r1"].duration # NULL
                   => /\ runs'["r1"].duration # NULL
                      /\ runs'["r1"].duration >= runs["r1"].duration
                      /\ StatsMs >= runs["r1"].duration
      ]_vars

\* A run finished at 1 with duration 1, resumed at once, queried at 2: 2.
C11_Witness ==
    /\ time_logs["r1"] = <<[action |-> "START", timestamp |-> 0],
                           [action |-> "END", timestamp |-> 1],
                           [action |-> "RESUME", timestamp |-> 1]>>
    /\ runs["r1"].duration = 1
    /\ now = 2
    /\ StatsMs = 2

(* ------------------------------------------------ the orchestration trace *)

\* The positions in calls of what task o awaited.
CallsOf(o) == {i \in 1..Len(calls) : calls[i].orch = o}

\* The calls that change the server's files or start it.
AfterOffline == {"getFileContent", "uploadFile", "deleteFile", "startServer"}

(* ----------------------------------------------------------------- C12 *)

\* C12: every read or write of server.properties, every deletion and every
\* start a reset or reseed task issues comes after a status poll of the same
\* task that returned OFFLINE; a task whose polls never returned OFFLINE has
\* issued none of them.
C12_OfflineFirst ==
    \A o \in Orchs :
        \A i \in CallsOf(o) :
            calls[i].op \in AfterOffline
              => \E j \in CallsOf(o) :
                    /\ j < i
                    /\ calls[j].op = "getServerStatus"
                    /\ calls[j].ret = OFFLINE

\* A reset whose 101 polls all saw the server up: stop, the polls and the
\* sleeps between them, nothing else.
C12_Witness ==
    /\ orch["o1"].pc = "aborted"
    /\ orch["o1"].route = "reset"
    /\ Len(calls) = 202
    /\ \A i \in CallsOf("o1") : calls[i].op \notin AfterOffline

(* ----------------------------------------------------------------- C13 *)

\* C13: after a getFileContent or uploadFile of server.properties that threw,
\* the reseed task that awaited it issues no deletion and no start (it
\* issues nothing at all).
C13_PropsFailureAborts ==
    \A o \in Orchs :
        \A i \in CallsOf(o) :
            (calls[i].op \in {"getFileContent", "uploadFile"} /\ ~calls[i].ok)
              => /\ \A j \in CallsOf(o) : j <= i
                 /\ orch[o].pc = "props_failed"

\* A reseed whose upload threw, after the fetch had returned.
C13_Witness ==
    /\ orch["o1"].pc = "props_failed"
    /\ calls[Len(calls)].op = "uploadFile"
    /\ ~calls[Len(calls)].ok
    /\ calls[Len(calls) - 1].op = "getFileContent"
    /\ server = OFFLINE

(* ----------------------------------------------------------------- C14 *)

\* Task o awaited a deleteFile that threw and has ended without a start after it.
EndedUnstarted(o) ==
    /\ orch[o].pc \in Terminal
    /\ \E i \in CallsOf(o) :
          /\ calls[i].op = "deleteFile"
          /\ ~calls[i].ok
          /\ \A j \in CallsOf(o) : j > i => calls[j].op # "startServer"

C15_PlainRestart ==
    \A o \in Orchs :
        orch[o].route = "restart"
          => /\ \A i \in CallsOf(o) : calls[i].op = "restartServer"
             /\ Cardinality(CallsOf(o)) =
                   (IF orch[o].pc \in {"done", "failed"} THEN 1 ELSE 0)
             /\ orch[o].pc \in {"restartServer", "rejected", "done", "failed"}

\* A plain restart that returned: one call, the server restarting.
C15_Witness ==
    /\ orch["o1"].route = "restart"
    /\ orch["o1"].pc = "done"
    /\ calls = <<[orch |-> "o1", op |-> "restartServer", path |-> "", ok |-> TRUE,
                  ret |-> NULL]>>
    /\ server = RESTARTING

(* ----------------------------------------------------------------- C16 *)

\* C16: with the configuration present a reset, reseed or restart request is
\* answered 202 before its task has awaited anything, and the answer stays 202
\* wherever the task ends: started, given up waiting, a call refused.
C16_Accepted ==
    /\ [](\A o \in Orchs : orch[o].pc \notin {"idle", "rejected"} => orch[o].resp = 202)
    /\ [][\A o \in Orchs :
             orch'[o].resp # orch[o].resp => (orch[o].pc = "idle" /\ CallsOf(o) = {})
         ]_vars

\* A reset answered 202 whose start was refused.
C16_Witness ==
    /\ orch["o1"].resp = 202
    /\ orch["o1"].pc = "failed"
    /\ calls[Len(calls)].op = "startServer"
    /\ ~calls[Len(calls)].ok

(* ----------------------------------------------------------------- C17 *)

\* The positions in calls of the status polls of task o.
PollsOf(o) == {i \in CallsOf(o) : calls[i].op = "getServerStatus"}

\* C17: a task polls the status at most 1 + 100 times, sleeps once before
\* each poll but the first, and, its calls returning or throwing, ends (start
\* issued, aborted or failed) even if the server never goes OFFLINE.
C17_BoundedWait ==
    /\ [](\A o \in Orchs :
            /\ Cardinality(PollsOf(o)) <= 101
            /\ \A i \in PollsOf(o) :
                  (\E j \in PollsOf(o) : j < i)
                    => (i - 1 \in CallsOf(o) /\ calls[i - 1].op = "setTimeout")
            /\ Cardinality({i \in CallsOf(o) : calls[i].op = "setTimeout"}) <= 100)
    /\ (orch["o1"].pc # "idle") ~> (orch["o1"].pc \in Terminal)

\* A reseed that gave up: 101 polls, 100 sleeps, the server still stopping.
C17_Witness ==
    /\ orch["o1"].route = "reseed"
    /\ orch["o1"].pc = "aborted"
    /\ orch["o1"].attempts = 100
    /\ Cardinality(PollsOf("o1")) = 101
    /\ server = STOPPING

(* ----------------------------------------------------------------- C18 *)

\* C18: nothing excludes one orchestration from another.  A reset or reseed
\* request is accepted, and launches its task, whatever the other task is
\* doing, and a task that has not ended can always take its next step: it
\* waits for no other task.  (The race this allows is C18_Witness.)
C18_NotExcluded ==
    \A o \in Orchs :
        /\ orch[o].pc = "idle"
              => /\ ENABLED Reset(o, TRUE)
                 /\ ENABLED Restart(o, "s1", TRUE)
        /\ orch[o].pc \notin Terminal \cup {"idle"} => ENABLED Step(o, TRUE)

\* The reset has issued start, which returned, and the server is coming up or
\* is up; the reseed, having seen OFFLINE before, has just issued a delete.
C18_Witness ==
    /\ Len(calls) > 0
    /\ calls[Len(calls)].orch = "o2"
    /\ calls[Len(calls)].op = "deleteFile"
    /\ server \in {STARTING, ONLINE}
    /\ \E i \in CallsOf("o1") : calls[i].op = "startServer" /\ calls[i].ok

(* ----------------------------------------------------------------- C19 *)

\* The place of a call in the choreography: stop, wait (polls and sleeps),
\* read, write, delete, start.
Rank(op) ==
    CASE op = "stopServer" -> 1
      [] op \in {"getServerStatus", "setTimeout"} -> 2
      [] op = "getFileContent" -> 3
      [] op = "uploadFile" -> 4
      [] op = "deleteFile" -> 5
      [] op = "startServer" -> 6
      [] OTHER -> 0

\* The place of a directory in the order of the deletes.
DirRank(path) == CHOOSE k \in 1..3 : <<"world", "world_nether", "world_the_end">>[k] = path

\* C19: the calls a reset or reseed task awaits come in the order stop, polls,
\* (reseed only) read then write of server.properties, the deletes of world,
\* world_nether, world_the_end, start.  Nothing precedes the stop, which is
\* issued once; start, read, write and each delete are issued at most once;
\* a step is never repeated or gone back to.
C19_CallOrder ==
    \A o \in Orchs :
        orch[o].route \in {"reset", "reseed"}
          => /\ \A i \in CallsOf(o) :
                   /\ Rank(calls[i].op) > 0
                   /\ calls[i].op \in {"getFileContent", "uploadFile"}
                         => orch[o].route = "reseed"
                   /\ calls[i].op = "stopServer" <=> \A j \in CallsOf(o) : i <= j
             /\ \A i, j \in CallsOf(o) :
                   i < j
                     => /\ Rank(calls[i].op) <= Rank(calls[j].op)
                        /\ Rank(calls[i].op) = Rank(calls[j].op)
                              => \/ Rank(calls[i].op) = 2
                                 \/ /\ calls[i].op = "deleteFile"
                                    /\ DirRank(calls[i].path) < DirRank(calls[j].path)
             /\ orch[o].pc \notin {"idle", "rejected", "stopServer"}
                   => \E i \in CallsOf(o) : calls[i].op = "stopServer"

\* A reseed that ran to its end: stop, two polls around a sleep, read, write,
\* three deletes, start.
C19_Witness ==
    /\ orch["o1"].route = "reseed"
    /\ orch["o1"].pc = "done"
    /\ [i \in 1..Len(calls) |-> calls[i].op] =
          <<"stopServer", "getServerStatus", "setTimeout", "getServerStatus",
            "getFileContent", "uploadFile", "deleteFile", "deleteFile", "deleteFile",
            "startServer">>
    /\ [i \in 7..9 |-> calls[i].path] =
          [i \in 7..9 |-> <<"world", "world_nether", "world_the_end">>[i - 6]]

(* ----------------------------------------------------------------- C20 *)

\* C20: a finish of an existing run whose k-th await throws (1 the UPDATE of
\* status and ended_at, 2 the INSERT of END, 3 the SELECT of the seed, 4 the
\* INSERT into solved_seeds, 5 calculateStats, 6 the UPDATE of duration) is
\* answered 500, keeps what the awaits before the k-th wrote and writes nothing
\* more: the duration is never written, the END row only past 2, the seed only
\* past 4.
C20_PartialFinish ==
    [][\A k \in 1..6 :
          (Finish("r1", k) /\ RunExists(runs, "r1"))
            => /\ FinishResponse("r1", k).code = 500
               /\ runs'["r1"] =
                     IF k = 1 THEN runs["r1"]
                     ELSE [runs["r1"] EXCEPT !.status = "FINISHED", !.ended_at = now]
               /\ time_logs'["r1"] =
                     IF k <= 2 THEN time_logs["r1"]
                     ELSE Append(time_logs["r1"], [action |-> "END", timestamp |-> now])
               /\ solved_seeds' =
                     IF k <= 4 \/ solved_seeds[runs["r1"].seed] # NULL THEN solved_seeds
                     ELSE [solved_seeds EXCEPT ![runs["r1"].seed] = now]
      ]_vars

\* A run started at 0 whose finish at 1 threw at the SELECT or at the INSERT
\* into solved_seeds: FINISHED, END logged, no duration, seed not solved.
C20_Witness ==
    /\ runs["r1"].status = "FINISHED"
    /\ runs["r1"].ended_at = 1
    /\ runs["r1"].duration = NULL
    /\ time_logs["r1"] = <<[action |-> "START", timestamp |-> 0],
                           [action |-> "END", timestamp |-> 1]>>
    /\ solved_seeds["s1"] = NULL

(* ----------------------------------------------------------------- C21 *)

\* A finish of run r1 went past its first statement and threw, and nothing but
\* finish attempts came after it: the status is FINISHED (an update-state
\* would have changed it) and no finish has ever written the duration.
FinishInterrupted ==
    /\ RunExists(runs, "r1")
    /\ runs["r1"].status = "FINISHED"
    /\ runs["r1"].duration = NULL

\* C21: the finish that succeeds after interrupted attempts leaves the run
\* FINISHED, its seed in solved_seeds with the solved_at it had if an attempt
\* got that far (one row per seed), the duration the fold of the time log,
\* whose clock is off at the end, and an END row the attempts left behind
\* makes the new END row a no-op of the fold.
C21_RetrySafe ==
    [][(Finish("r1", 0) /\ FinishInterrupted)
          => LET ord == OrderByTimestamp(time_logs'["r1"])
                 seed == runs["r1"].seed
                 n == Len(time_logs["r1"])
             IN  /\ FinishResponse("r1", 0).code = 200
                 /\ runs'["r1"].status = "FINISHED"
                 /\ solved_seeds'[seed] =
                       (IF solved_seeds[seed] # NULL THEN solved_seeds[seed] ELSE now)
                 /\ \A s \in Seeds \ {seed} : solved_seeds'[s] = solved_seeds[s]
                 /\ ~ClockOnAtEnd(ord)
                 /\ runs'["r1"].duration = ClosedTotal(ord)
                 /\ (n > 0 /\ time_logs["r1"][n].action = "END")
                       => runs'["r1"].duration = ElapsedMs(time_logs["r1"], now)
      ]_vars

\* START@0; a finish at 1 that threw after its END row and before the seed was
\* recorded; the retry at 2: duration 1, solved at 2.
C21_Witness ==
    /\ runs["r1"].status = "FINISHED"
    /\ runs["r1"].ended_at = 2
    /\ runs["r1"].duration = 1
    /\ time_logs["r1"] = <<[action |-> "START", timestamp |-> 0],
                           [action |-> "END", timestamp |-> 1],
                           [action |-> "END", timestamp |-> 2]>>
    /\ solved_seeds["s1"] = 2

(* ----------------------------------------------------------------- C22 *)

\* The init-run requests that lack a required field, and the update-state
\* requests that do.
InitLacking ==
    {q \in [run_id : {"r1", ""}, type : {"TEAM", ""}, seed : {"s1", ""},
            players : PlayerLists \cup {NoPlayers}] :
        q.run_id = "" \/ q.type = "" \/ q.seed = "" \/ q.players = NoPlayers}

UpdateLacking ==
    {q \in [run_id : {"r1", ""}, action : ActionInputs] : q.run_id = "" \/ q.action = ""}

\* C22: in every reachable state, an init-run request without run_id, type,
\* seed or players and an update-state request without run_id or action are
\* answered 400 and the tables their handlers write (runs and players; runs
\* and time_logs) come out as they were; the handlers write no other table.
C22_LackingRejected ==
    /\ \A q \in InitLacking :
          /\ InitRunResponse(q.run_id, q.type, q.seed, q.players, 0).code = 400
          /\ InitRunRuns(q.run_id, q.type, q.seed, q.players, 0) = runs
          /\ InitRunPlayers(q.run_id, q.type, q.seed, q.players, 0) = players
    /\ \A q \in UpdateLacking :
          /\ UpdateStateResponse(q.run_id, q.action, 0).code = 400
          /\ UpdateStateRuns(q.run_id, q.action, 0) = runs
          /\ UpdateStateLogs(q.run_id, q.action, 0) = time_logs

\* The tables empty: an init-run for r1 with everything but the type, which
\* would be accepted if complete, and an update-state without action.
C22_Witness ==
    /\ ~RunExists(runs, "r1")
    /\ now = 1
    /\ InitRunResponse("r1", "TEAM", "s1", Team, 0).code = 200
    /\ InitRunResponse("r1", "", "s1", Team, 0).code = 400
    /\ UpdateStateResponse("r1", "", 0).code = 400

(* ----------------------------------------------------------------- C23 *)

\* C23: a stats query for a run id without a row in runs is answered with an
\* error and no stats, whatever rows the other tables hold for that id, and a
\* stats query changes no table.
C23_StatsUnknownRun ==
    /\ [](~RunExists(runs, "r1")
            => /\ StatsResponse("r1", 0).code = 500
               /\ StatsResponse("r1", 0).stats = NoStats)
    /\ [][Stats("r1", 0) => UNCHANGED tables]_vars

\* Without foreign keys: a START logged at 0 for r1, which has no run row; a
\* query at 2 fails, it does not report 2 seconds.
C23_Witness ==
    /\ ~RunExists(runs, "r1")
    /\ time_logs["r1"] = <<[action |-> "START", timestamp |-> 0]>>
    /\ now = 2
    /\ StatsResponse("r1", 0).code = 500

(* ----------------------------------------------------------------- C24 *)

\* The duration and its formatted form in the answer to a stats query on r1.
Formatted == StatsResponse("r1", 0).stats.duration_formatted

\* C24 as stated: the formatted duration is "{h}h {m}m {s}s", the pieces being
\* h = floor(ms/3600000), "h ", m = floor(ms/60000) mod 60, "m ",
\* s = floor(ms/1000) mod 60, "s".
C24_Format ==
    RunExists(runs, "r1")
      => Formatted = <<StatsMs \div 3600000, "h ", (StatsMs \div 60000) % 60, "m ",
                       (StatsMs \div 1000) % 60, "s">>

\* C24, what the code keeps: the three numbers are the floor-based hours (not
\* wrapped at 24), minutes and seconds, unpadded, after "h " and "m ".
C24_FormatNumbers ==
    RunExists(runs, "r1")
      => /\ Len(Formatted) = 6
         /\ Formatted[1] = StatsMs \div 3600000
         /\ Formatted[2] = "h "
         /\ Formatted[3] = (StatsMs \div 60000) % 60
         /\ Formatted[4] = "m "
         /\ Formatted[5] = (StatsMs \div 1000) % 60

\* 90061999 ms: 25 hours, 1 minute, 1 second, then " s".
C24_Witness ==
    /\ RunExists(runs, "r1")
    /\ StatsMs = 90061999
    /\ Formatted = <<25, "h ", 1, "m ", 1, " s">>

(* ----------------------------------------------------------------- C25 *)

\* C25 as stated: in every reachable state every run row has at least one
\* player row.
C25_RunHasPlayers ==
    \A r \in RunIds :
        RunExists(runs, r) => \E i \in 1..Len(players) : players[i].run_id = r

(* ----------------------------------------------------------------- C26 *)

\* C26: run ids are unique.  While r1 has a row in runs, an init-run request
\* for r1, complete and with any players, is answered with an error and leaves
\* runs and players as they are (the handler writes no other table): the row
\* of r1 is not replaced and no player row is added.
C26_UniqueRunId ==
    RunExists(runs, "r1")
      => \A s \in Seeds, ps \in PlayerLists :
            /\ InitRunResponse("r1", "TEAM", s, ps, 0).code = 500
            /\ InitRunRuns("r1", "TEAM", s, ps, 0) = runs
            /\ InitRunPlayers("r1", "TEAM", s, ps, 0) = players

\* r1 running since 0 with its two players; an init-run for r1 on another seed.
C26_Witness ==
    /\ runs["r1"].status = "RUNNING"
    /\ runs["r1"].seed = "s1"
    /\ Len(players) = 2
    /\ Len(time_logs["r1"]) = 1
    /\ InitRunResponse("r1", "TEAM", "s2", Team, 0).code = 500

(* C27: a request on an /api/* path whose X-API-Key header is absent or      *)
(* differs from API_SECRET, or that arrives while API_SECRET is unset, is    *)
(* rejected (401, or 500 without a secret), changes no table and causes no   *)
(* call to the server.                                                        *)
Unauthenticated(k, v) == v = "" \/ k = "" \/ k # v

ApiRequest(k, v) ==
    \/ ApiInitRun(k, v)
    \/ ApiUpdateState(k, v)
    \/ ApiCheat(k, v)
    \/ ApiFinish(k, v)
    \/ ApiStats(k, v)
    \/ ApiInitDb(k, v)
    \/ ApiReset(k, v)
    \/ ApiRestart(k, v)

C27_Unauthenticated ==
    [][\A k \in Keys, v \in Secrets :
          Unauthenticated(k, v)
            => /\ AuthResponse(k, v) \in {401, 500}
               /\ ApiRequest(k, v) => UNCHANGED <<tables, remote>>]_vars

C27_Witness ==
    /\ runs["r1"].status = "RUNNING"
    /\ orch["o1"].pc = "getFileContent"
    /\ Len(calls) > 0
    /\ AuthResponse("", "k1") = 401
    /\ AuthResponse("k2", "k1") = 401
    /\ AuthResponse("k1", "") = 500
    /\ AuthResponse("k1", "k1") = 0

(* C28: ledger requests are isolated.  No query sees the table state between *)
(* two statements of another request: a run listed as FINISHED has its END   *)
(* row and its duration, and a status set by update-state has the row of the *)
(* action it came from.                                                      *)
StatusOf(action) == IF action = "END" THEN "FINISHED" ELSE NewStatus(action)

HasAction(log, status) == \E i \in 1..Len(log) : StatusOf(log[i].action) = status

C28_Isolated ==
    /\ \A row \in recentRuns(runs, players) :
          row.duration # NULL /\ HasAction(time_logs[row.id], "FINISHED")
    /\ \A r \in RunIds :
          RunExists(runs, r) /\ runs[r].status \in {"RUNNING", "PAUSED"}
            => HasAction(time_logs[r], runs[r].status)

(* What holds of the same tables whenever no request is in progress.         *)
Quiescent == \A q \in Reqs : inflight[q] = IdleReq

C28_IsolatedAtRest ==
    Quiescent
      => /\ \A row \in recentRuns(runs, players) :
               row.duration # NULL /\ HasAction(time_logs[row.id], "FINISHED")
         /\ \A r \in RunIds :
               RunExists(runs, r) /\ runs[r].status \in {"RUNNING", "PAUSED"}
                 => HasAction(time_logs[r], runs[r].status)

C28_Witness ==
    /\ Quiescent
    /\ recentRuns(runs, players) # {}
    /\ Len(time_logs["r1"]) = 3
    /\ time_logs["r1"][3].action = "PAUSE"
    /\ time_logs["r1"][2].action = "END"

(* C29: the elapsed time is a function of the set of rows alone.  Two        *)
(* evaluations over the same rows of a run return the same duration_ms,       *)
(* whenever they are made and in whichever order rows of equal timestamp     *)
(* were inserted.                                                            *)

\* The rows of log inserted in the order f.
Reordered(log, f) == [i \in 1..Len(log) |-> log[f[i]]]

\* The insertion orders of the rows of log: all of them, and those that differ
\* from log among rows of equal timestamp only.
Orders(log) == Permutations(1..Len(log))

TieOrders(log) ==
    {f \in Orders(log) : \A i \in 1..Len(log) : log[f[i]].timestamp = log[i].timestamp}

C29_Deterministic ==
    \A r \in RunIds :
       \A t \in now..(MaxTime + 1), f \in TieOrders(time_logs[r]) :
          ElapsedMs(Reordered(time_logs[r], f), t) = ElapsedMs(time_logs[r], now)

(* What holds: a log whose timestamps are pairwise distinct and whose replay *)
(* ends with the clock off gives one duration_ms, at every instant and for   *)
(* every insertion order.                                                    *)
DistinctTimestamps(log) ==
    \A i, j \in 1..Len(log) : i # j => log[i].timestamp # log[j].timestamp

C29_DeterministicClosed ==
    \A r \in RunIds :
       LET log == time_logs[r]
       IN  DistinctTimestamps(log) /\ ~ClockOnAtEnd(OrderByTimestamp(log))
             => \A t \in now..(MaxTime + 1), f \in Orders(log) :
                   ElapsedMs(Reordered(log, f), t) = ElapsedMs(log, now)

C29_Witness ==
    /\ Len(time_logs["r1"]) = 3
    /\ DistinctTimestamps(time_logs["r1"])
    /\ ~ClockOnAtEnd(Log1)
    /\ StatsMs = 2
    /\ ElapsedMs(time_logs["r1"], now + 1) = 2
    /\ ElapsedMs(Reordered(time_logs["r1"], <<3, 1, 2>>), now) = 2

(* C30: time_logs and cheat_logs are append-only under init-run,            *)
(* update-state, cheat-report, finish and stats: every row either table      *)
(* holds stays where it is, as it is; and the cheat_incidents a stats query  *)
(* reports for a run is the number of cheat reports accepted for it: it is   *)
(* the number of rows of the run, which every accepted report raises by one  *)
(* and nothing else changes.                                                 *)
IsPrefix(s, t) == Len(s) <= Len(t) /\ SubSeq(t, 1, Len(s)) = s

ReportsOf(rows, r) == Cardinality({i \in 1..Len(rows) : rows[i].run_id = r})

\* 1 on a step that is a cheat report about r answered 200, else 0.
Accepted(r) ==
    IF \E p \in {"p1", "p2"}, fail \in 0..1 :
          CheatResponse(r, fail).code = 200 /\ Cheat(r, p, fail)
    THEN 1 ELSE 0

C30_AppendOnly ==
    /\ [](\A r \in RunIds :
            StatsResponse(r, 0).code = 200
              => StatsResponse(r, 0).stats.cheat_incidents = ReportsOf(cheat_logs, r))
    /\ [][/\ \A r \in RunIds : IsPrefix(time_logs[r], time_logs'[r])
          /\ IsPrefix(cheat_logs, cheat_logs')
          /\ \A r \in RunIds :
                ReportsOf(cheat_logs', r) = ReportsOf(cheat_logs, r) + Accepted(r)]_vars

C30_Witness ==
    /\ runs["r1"].status = "FINISHED"
    /\ Len(time_logs["r1"]) = 3
    /\ Len(cheat_logs) = 3
    /\ cheat_logs[1].run_id = "r1" /\ cheat_logs[1].player_name = "p1"
    /\ cheat_logs[2].run_id = "r2"
    /\ cheat_logs[3].run_id = "r1" /\ cheat_logs[3].player_name = "p1"
    /\ StatsResponse("r1", 0).stats.cheat_incidents = 2

OnBoard(board, r) == \E row \in board : row.id = r

C32_Leaderboards ==
    \A r \in RunIds :
       LET random == OnBoard(leaderboard(runs, players), r)
           fixed == OnBoard(setSeedLeaderboard(runs, players), r)
       IN  /\ random \/ fixed => runs[r].status = "FINISHED" /\ runs[r].duration # NULL
           /\ random => runs[r].set_seed = 0
           /\ fixed => runs[r].set_seed = 1
           /\ ~(random /\ fixed)
           /\ RunExists(runs, r) /\ runs[r].status # "FINISHED" => ~random /\ ~fixed

\* r1 (set seed) was finished and started again, r2 (random seed) is finished.
C32_Witness ==
    /\ runs["r1"].status = "RUNNING" /\ runs["r1"].duration # NULL
    /\ runs["r1"].set_seed = 1
    /\ runs["r2"].status = "FINISHED" /\ runs["r2"].set_seed = 0
    /\ OnBoard(leaderboard(runs, players), "r2")
    /\ ~OnBoard(setSeedLeaderboard(runs, players), "r2")
    /\ ~OnBoard(setSeedLeaderboard(runs, players), "r1")
    /\ ~OnBoard(leaderboard(runs, players), "r1")

(* C33: when the status lookup of a public-stats request fails, only the    *)
(* field server_status degrades, to "ERROR" (or "UNKNOWN" when there is no   *)
(* configuration and no lookup is made); the totals, the leaderboards, the   *)
(* recent runs and the active run are those of the ledger, as with a lookup  *)
(* that succeeds, and the request is answered 200.                           *)
C33_StatusDegrades ==
    \A configured \in BOOLEAN :
       LET failed == PublicStatsResponse(configured, FALSE, 0)
           fine == PublicStatsResponse(TRUE, TRUE, 0)
       IN  /\ failed.code = 200
           /\ failed.stats.server_status = (IF configured THEN "ERROR" ELSE "UNKNOWN")
           /\ failed.stats.totals = totals(runs)
           /\ failed.stats.leaderboard = leaderboard(runs, players)
           /\ failed.stats.set_seed_leaderboard = setSeedLeaderboard(runs, players)
           /\ failed.stats.recent_runs = recentRuns(runs, players)
           /\ failed.stats.active_run = activeRun(runs, players)
           /\ fine.code = 200
           /\ fine.stats.server_status = statusMap[server]
           /\ [failed.stats EXCEPT !.server_status = ""]
                = [fine.stats EXCEPT !.server_status = ""]

C33_Witness ==
    /\ server = STOPPING
    /\ runs["r1"].status = "FINISHED"
    /\ totals(runs).finished_runs = 1
    /\ recentRuns(runs, players) # {}
    /\ leaderboard(runs, players) # {}
    /\ PublicStatsResponse(TRUE, FALSE, 0).stats.server_status = "ERROR"
    /\ PublicStatsResponse(TRUE, TRUE, 0).stats.server_status = "STOPPING"

(* C34: whenever a run is FINISHED and no request about it is in progress,   *)
(* runs.duration is the fold of the run's time log: the stored duration is   *)
(* never stale, finishes that fail part-way included.                        *)
AtRest(r) == \A q \in Reqs : inflight[q].run_id # r

C34_DurationFresh ==
    \A r \in RunIds :
       RunExists(runs, r) /\ runs[r].status = "FINISHED" /\ AtRest(r)
         => runs[r].duration = ElapsedMs(time_logs[r], now)

(* What holds: a finish none of whose statements fails leaves the duration   *)
(* of the log as it then is, at that instant and at every later one.         *)
C34_FreshAtFinish ==
    [][Finish("r1", 0) /\ RunExists(runs, "r1")
         => /\ runs'["r1"].status = "FINISHED"
            /\ \A t \in now'..(MaxTime + 1) :
                  runs'["r1"].duration = ElapsedMs(time_logs'["r1"], t)]_vars

\* A second finish, after a START that followed the first.
C34_Witness ==
    /\ runs["r1"].status = "FINISHED"
    /\ Len(time_logs["r1"]) = 3
    /\ time_logs["r1"][1].action = "END"
    /\ time_logs["r1"][2] = [action |-> "START", timestamp |-> 1]
    /\ time_logs["r1"][3] = [action |-> "END", timestamp |-> 2]
    /\ runs["r1"].duration = 1
    /\ ElapsedMs(time_logs["r1"], now) = 1

(* ---------------------------------------------------------------- C35 *)

\* The task o has uploaded a rewritten server.properties.
Uploaded(o) ==
    \E i \in 1..Len(calls) :
        calls[i].orch = o /\ calls[i].op = "uploadFile" /\ calls[i].ok

\* The text `new`, read line by line, is the text `old` with every line that
\* starts with 'level-seed=' made 'level-seed=<seed>', one such line appended
\* when there was none, and every other line as it was and where it was.
Rewritten(old, new, seed) ==
    LET line == Key \o Chars(seed)
        was == split(old)
        is == split(new)
    IN  /\ \A i \in 1..Len(is) : startsWith(is[i], Key) => is[i] = line
        /\ \E i \in 1..Len(is) : is[i] = line
        /\ IF \E i \in 1..Len(was) : startsWith(was[i], Key)
           THEN /\ Len(is) = Len(was)
                /\ \A i \in 1..Len(was) :
                       is[i] = IF startsWith(was[i], Key) THEN line ELSE was[i]
           ELSE is = Append(was, line)

\* A seed written on one line.
OneLine(seed) == \A i \in 1..Len(Chars(seed)) : Chars(seed)[i] # "\n"

\* C35 (as stated): after the upload of a reseed, server.properties is the text
\* fetched with every line starting with 'level-seed=' exactly
\* 'level-seed=<new seed>', at least one such line (appended at the end if none
\* was present), and all other lines unchanged and in their original order.
C35_Rewrite ==
    Uploaded("o1") => Rewritten(orch["o1"].propsContent, files, orch["o1"].seed)

\* C35 (what holds): the same, for every seed that holds no line break.
C35_RewriteOneLine ==
    Uploaded("o1") /\ OneLine(orch["o1"].seed)
        => Rewritten(orch["o1"].propsContent, files, orch["o1"].seed)

\* A text of two lines, neither starting with the key though both hold its
\* words, has been reseeded with a one-line seed: the line was appended.
C35_Witness ==
    /\ Uploaded("o1")
    /\ orch["o1"].seed = "s1"
    /\ orch["o1"].propsContent = <<" ">> \o Key \o <<"\n">> \o SubSeq(Key, 1, Len(Key) - 1)
    /\ files = orch["o1"].propsContent \o <<"\n">> \o Key \o <<"s", "1">>

\* A text with a 'level-seed=0' line has been reseeded: the line was replaced
\* in place.
C35_WitnessReplaced ==
    /\ Uploaded("o1")
    /\ orch["o1"].seed = "s2"
    /\ orch["o1"].propsContent = Key \o <<"0", "\n", "p", "\r">>
    /\ files = Key \o <<"s", "2", "\n", "p", "\r">>

(* ---------------------------------------------------------------- C36 *)

\* The actions of the rows of a log that carry its greatest timestamp.
LatestActions(log) ==
    { log[i].action : i \in { k \in 1..Len(log) :
                                \A j \in 1..Len(log) : log[j].timestamp <= log[k].timestamp } }

\* Once every request has completed, the status of a run is the one its
\* latest row stands for.
StatusFollowsLog ==
    \A r \in RunIds :
       Quiescent /\ RunExists(runs, r) /\ time_logs[r] # <<>>
         => \E a \in LatestActions(time_logs[r]) : runs[r].status = StatusOf(a)

\* The calculateStats of a finish replays a log that ends clock-off.
ReplayEndsClockOff ==
    \A q \in Reqs :
       inflight[q].route = "finish" /\ inflight[q].pc = 5 /\ inflight'[q].pc = 6
         => ~ClockOnAtEnd(OrderByTimestamp(time_logs[inflight[q].run_id]))

\* C36 (as stated): when update-state and finish requests for one run
\* interleave at their awaits, then once all have completed the status of the
\* run is that of the row with the greatest timestamp, and the duration a
\* finish persists holds no live `now` term: its replay ended clock-off.
C36_Interleaved == [](StatusFollowsLog) /\ [][ReplayEndsClockOff]_vars

\* C36 (what holds): once all requests have completed, the status of the run
\* is that of some row of its log, though not always of the latest.
C36_StatusOfSomeRow ==
    \A r \in RunIds :
       Quiescent /\ RunExists(runs, r) /\ time_logs[r] # <<>>
         => \E i \in 1..Len(time_logs[r]) :
               runs[r].status = StatusOf(time_logs[r][i].action)

\* A finish that read the clock at 0 and a PAUSE that read it at 1 have both
\* completed: the run is FINISHED and its latest row is the PAUSE.
C36_Witness ==
    /\ Quiescent
    /\ time_logs["r1"] = << [action |-> "END", timestamp |-> 0],
                            [action |-> "PAUSE", timestamp |-> 1] >>
    /\ runs["r1"].status = "FINISHED"

\* The first half of C36 alone.
C36_StatusAlone == StatusFollowsLog

\* The second half of C36 alone.
C36_DurationAlone == [][ReplayEndsClockOff]_vars

(* ---------------------------------------------------------------- C37 *)

\* The timestamps of the clock-on rows of a log.
OnTimes(log) == { log[i].timestamp : i \in { k \in 1..Len(log) : IsOn(log[k]) } }

\* The least of a non-empty set of instants.
Earliest(ts) == CHOOSE t \in ts : \A u \in ts : t <= u

\* C37: for a run whose rows all carry timestamps of at most the query time,
\* the duration_ms of calculateStats is at least 0 and at most the time since
\* the earliest START or RESUME row, and is 0 when the log has no such row.
C37_Bounded ==
    \A r \in RunIds, t \in now..(MaxTime + 1) :
       /\ RunExists(runs, r)
       /\ \A i \in 1..Len(time_logs[r]) : time_logs[r][i].timestamp <= t
       => LET ms == calculateStats(runs, players, time_logs, cheat_logs, r, t).duration_ms
              on == OnTimes(time_logs[r])
          IN  /\ 0 <= ms
              /\ on = {} => ms = 0
              /\ on # {} => ms <= t - Earliest(on)

\* START@0, PAUSE@1, PAUSE@2 queried at 2: 1 ms of the 2 since the START.
C37_Witness ==
    /\ time_logs["r1"] = << [action |-> "START", timestamp |-> 0],
                            [action |-> "PAUSE", timestamp |-> 1],
                            [action |-> "PAUSE", timestamp |-> 2] >>
    /\ now = 2
    /\ StatsMs = 1

\* PAUSE@1 alone, queried at 2: no clock-on row, 0 ms.
C37_WitnessNoStart ==
    /\ time_logs["r1"] = << [action |-> "PAUSE", timestamp |-> 1] >>
    /\ now = 2
    /\ StatsMs = 0

(* ---------------------------------------------------------------- C38 *)

\* C38: when the stop call or a status poll of a reset or reseed task fails
\* with a transport error, that task issues no further remote call: the failed
\* call is not made again, nothing is read, written or deleted, and the server
\* is not started.
C38_TransportErrorEnds ==
    \A o \in Orchs :
        \A i \in CallsOf(o) :
            /\ orch[o].route \in {"reset", "reseed"}
            /\ calls[i].op \in {"stopServer", "getServerStatus"}
            /\ ~calls[i].ok
            => /\ \A j \in CallsOf(o) : j <= i
               /\ orch[o].pc = "failed"

\* A reseed whose second poll threw, after the stop, the first poll and the
\* sleep: four calls, none after.
C38_Witness ==
    /\ orch["o1"].route = "reseed"
    /\ orch["o1"].pc = "failed"
    /\ Len(calls) = 4
    /\ calls[1].op = "stopServer" /\ calls[1].ok
    /\ calls[2].op = "getServerStatus" /\ calls[2].ok
    /\ calls[3].op = "setTimeout"
    /\ calls[4].op = "getServerStatus" /\ ~calls[4].ok

\* A reset whose stop threw: one call, none after.
C38_WitnessStop ==
    /\ orch["o1"].route = "reset"
    /\ orch["o1"].pc = "failed"
    /\ Len(calls) = 1
    /\ calls[1].op = "stopServer" /\ ~calls[1].ok

(* ---------------------------------------------------------------- C39 *)

\* A finish of run r1, none of whose statements fails, is answered 200.
FinishAccepted ==
    RunExists(runs, "r1")
      => FinishThrown("r1", 0) = 0 /\ FinishResponse("r1", 0).code = 200

\* Such a finish leaves the run FINISHED and, over a log without a START or
\* RESUME row, stores duration 0 and has the seed among the solved ones.
FinishUnstarted ==
    Finish("r1", 0) /\ RunExists(runs, "r1")
      => /\ runs'["r1"].status = "FINISHED"
         /\ OnTimes(time_logs["r1"]) = {}
              => /\ runs'["r1"].duration = 0
                 /\ solved_seeds'[runs["r1"].seed] # NULL

\* C39: finish has no precondition on the status of the run: on an existing
\* run it succeeds from CREATED, RUNNING, PAUSED, ABORTED, FAILED and FINISHED
\* alike, and for a run whose log holds no START or RESUME row it stores
\* duration 0 and marks the seed solved.
C39_FinishAnyStatus == [](FinishAccepted) /\ [][FinishUnstarted]_vars

\* A run never started, aborted at 0 and finished at 1: FINISHED, duration 0,
\* its seed solved at 1.
C39_Witness ==
    /\ time_logs["r1"] = << [action |-> "ABORT", timestamp |-> 0],
                            [action |-> "END", timestamp |-> 1] >>
    /\ runs["r1"].status = "FINISHED"
    /\ runs["r1"].duration = 0
    /\ solved_seeds["s1"] = 1

(* ---------------------------------------------------------------- C40 *)

\* The runs with a RUNNER player whose status is one of `statuses`.
RunsIn(statuses) ==
    { r \in RunIds : /\ RunExists(runs, r)
                     /\ runs[r].status \in statuses
                     /\ \E i \in 1..Len(players) :
                           players[i].run_id = r /\ players[i].role = "RUNNER" }

\* The active_run of the public stats is the most recently created of the runs
\* `among`: null when there is none, else a row of one that no other is newer
\* than.
ActiveIsNewest(among) ==
    LET active == PublicStatsResponse(TRUE, TRUE, 0).stats.active_run
    IN  /\ among = {} => active = {}
        /\ among # {}
             => /\ active # {}
                /\ \A row \in active :
                      /\ row.id \in among
                      /\ \A r \in among : runs[r].created_at <= row.created_at

\* C40 (as stated): the active_run of the public stats is the most recently
\* created run with a RUNNER player whose status is CREATED, RUNNING or PAUSED;
\* a run put into RUNNING by START or RESUME is reported when no newer such
\* run exists.
C40_ActiveRun == ActiveIsNewest(RunsIn({"CREATED", "RUNNING", "PAUSED"}))

\* C40 (what holds): the active_run is the most recently created run with a
\* RUNNER player whose status is CREATED or PAUSED; a RUNNING run is never it.
C40_ActiveCreatedOrPaused ==
    /\ ActiveIsNewest(RunsIn({"CREATED", "PAUSED"}))
    /\ \A row \in PublicStatsResponse(TRUE, TRUE, 0).stats.active_run :
          row.status # "RUNNING"

\* r1 created at 0 and paused, r2 created at 1 and started: the older, paused
\* run is reported, the newer, running one is not.
C40_Witness ==
    /\ runs["r1"].status = "PAUSED" /\ runs["r1"].created_at = 0
    /\ runs["r2"].status = "RUNNING" /\ runs["r2"].created_at = 1
    /\ \E row \in PublicStatsResponse(TRUE, TRUE, 0).stats.active_run : row.id = "r1"

====
